---- MODULE Spec2Model ----
(***************************************************************************)
(* Finality gadget of goshimmer (packages/consensus/finality).             *)
(* SimpleFinalityGadget translates approval weight into a grade of         *)
(* finality and propagates it backward over the message DAG (HandleMarker) *)
(* and forward over the UTXO graph (HandleBranch).                         *)
(***************************************************************************)
EXTENDS Integers, Sequences, FiniteSets, TLC

(* ------------------------------------------------------------------ *)
(* gof.GradeOfFinality                                                 *)
(* ------------------------------------------------------------------ *)
None == 0
Low == 1
Medium == 2
High == 3
GradeOfFinality == None..High

(* approval weights are floats in [0,1]; modelled in hundredths *)
lowLowerBound == 20
mediumLowerBound == 30
highLowerBound == 50

(* ------------------------------------------------------------------ *)
(* Bounds                                                              *)
(* ------------------------------------------------------------------ *)
\* number of calls the concurrent callers may start altogether
MaxCalls == 3
\* number of calls a single caller may make one after the other
MaxSequentialCalls == 4
\* number of calls made while the queries are asked
MaxQueriedCalls == 2

(* ------------------------------------------------------------------ *)
(* The ledger the gadget works on: message DAG, attachments, UTXO graph *)
(* ------------------------------------------------------------------ *)
EmptyMessageID == "none"
NoTransaction == "notx"
MasterBranchID == "master"

MessageIDs == {"m1", "m2", "m3", "m4", "m5", "m6", "m7"}
TransactionIDs == {"TA", "TB", "TC", "TD", "TE"}
OutputIDs == {"oA", "oB1", "oB2", "oB3", "oC", "oD", "oE"}
\* the conflict branches: each carries the identifier of its conflicting transaction
BranchIDs == {"TB", "TD"}
Markers == {"k0", "k1", "k4", "k6"}

\* the weights delivered by the approval weight manager
Weights == {0, 20, 30, 50}

\* markers.Manager.MessageID: "k0" is a marker no message was booked for
MessageID(marker) ==
    CASE marker = "k1" -> "m1"
      [] marker = "k4" -> "m4"
      [] marker = "k6" -> "m6"
      [] OTHER -> EmptyMessageID

\* parents in the order ForEachParentByType visits them
StrongParents(m) ==
    CASE m = "m2" -> <<"m1">>
      [] m = "m3" -> <<"m1">>
      [] m = "m4" -> <<"m2", "m3">>
      [] m = "m5" -> <<"m1">>
      [] m = "m6" -> <<"m4", "m5">>
      [] m = "m7" -> <<"m6">>
      [] OTHER -> <<>>

WeakParents(m) ==
    CASE m = "m4" -> <<"m5">>
      [] OTHER -> <<>>

\* StructureDetails().IsPastMarker: the messages that are markers themselves
IsPastMarker(m) == m \in {"m1", "m4", "m6"}

\* the transaction a message carries as payload (NoTransaction for data messages)
Payload(m) ==
    CASE m = "m2" -> "TA"
      [] m = "m3" -> "TA"
      [] m = "m4" -> "TB"
      [] m = "m5" -> "TC"
      [] m = "m6" -> "TD"
      [] m = "m7" -> "TE"
      [] OTHER -> NoTransaction

\* Storage.Attachments: the messages attaching a transaction
Attachments(t) == {m \in MessageIDs : Payload(m) = t}

\* TransactionMetadata.BranchID
BranchID(t) ==
    CASE t = "TB" -> "TB"
      [] t = "TC" -> "TB"
      [] t = "TD" -> "TD"
      [] t = "TE" -> "TD"
      [] OTHER -> MasterBranchID

\* LedgerState.TransactionConflicting: the transaction defines a branch of its own
TransactionConflicting(t) == BranchID(t) = t

\* transaction.Essence().Outputs(), in output index order
Outputs(t) ==
    CASE t = "TA" -> <<"oA">>
      [] t = "TB" -> <<"oB1", "oB2", "oB3">>
      [] t = "TC" -> <<"oC">>
      [] t = "TD" -> <<"oD">>
      [] t = "TE" -> <<"oE">>
      [] OTHER -> <<>>

\* LedgerState.Consumers: the transactions spending an output, in storage order
Consumers(o) ==
    CASE o = "oA" -> <<"TB">>
      [] o = "oB1" -> <<"TC">>
      [] o = "oB2" -> <<"TD">>
      [] o = "oB3" -> <<"TC">>
      [] o = "oC" -> <<"TD">>
      [] o = "oD" -> <<"TE">>
      [] OTHER -> <<>>

\* BranchID.TransactionID(): branch and defining transaction share the identifier
TransactionIDOfBranch(b) == b

Range(seq) == {seq[i] : i \in 1..Len(seq)}

VARIABLES
    msgGoF,        \* MessageMetadata.gradeOfFinality per message
    txGoF,         \* TransactionMetadata.gradeOfFinality per transaction
    outGoF,        \* OutputMetadata.gradeOfFinality per output
    branchWeight,  \* ApprovalWeightManager.WeightOfBranch per branch
    opts,          \* Options: the two reached levels
    emitted,       \* number of times each confirmation event was triggered
    procs,         \* the callers: position and locals of the call each is in
    calls,         \* number of calls started so far
    history,       \* per record: highest candidate tried, levels it was raised to;
                   \* per message: highest level a started HandleMarker call is to bring
    highestWeight, \* per branch: the highest weight it has had
    probe,         \* the last query or translation a caller made, and its result
    entry          \* the ledger, the counters and the input the single caller's call began with

vars == <<msgGoF, txGoF, outGoF, branchWeight, opts, emitted, procs, calls, history,
          highestWeight, probe, entry>>

(* ------------------------------------------------------------------ *)
(* Events                                                              *)
(* ------------------------------------------------------------------ *)
MessageConfirmed(m) == [type |-> "MessageConfirmed", id |-> m]
TransactionConfirmed(t) == [type |-> "TransactionConfirmed", id |-> t]
BranchConfirmed(b) == [type |-> "BranchConfirmed", id |-> b]

AllEvents ==
    {MessageConfirmed(m) : m \in MessageIDs}
    \cup {TransactionConfirmed(t) : t \in TransactionIDs}
    \cup {BranchConfirmed(b) : b \in BranchIDs}

\* number of occurrences of e in a log of triggered events
Occurrences(log, e) == Cardinality({i \in 1..Len(log) : log[i] = e})

(* ------------------------------------------------------------------ *)
(* Threshold translation                                               *)
(* ------------------------------------------------------------------ *)
DefaultBranchGoFTranslation(branchID, aw) ==
    CASE aw >= lowLowerBound /\ aw < mediumLowerBound -> Low
      [] aw >= mediumLowerBound /\ aw < highLowerBound -> Medium
      [] aw >= highLowerBound -> High
      [] OTHER -> None

\* DefaultMessageGoFTranslation whose Medium band starts strictly above the bound
DefaultMessageGoFTranslation_StrictMedium(aw) ==
    CASE aw >= lowLowerBound /\ aw < mediumLowerBound -> Low
      [] aw > mediumLowerBound /\ aw < highLowerBound -> Medium
      [] aw >= highLowerBound -> High
      [] OTHER -> None

DefaultMessageGoFTranslation(aw) ==
    CASE aw >= lowLowerBound /\ aw < mediumLowerBound -> Low
      [] aw >= mediumLowerBound /\ aw < highLowerBound -> Medium
      [] aw >= highLowerBound -> High
      [] OTHER -> None

(* ------------------------------------------------------------------ *)
(* Metadata records: SetGradeOfFinality                                *)
(* ------------------------------------------------------------------ *)
\* message and transaction metadata: atomic compare-and-raise, reports whether
\* the stored value changed
SetGradeOfFinality(current, gradeOfFinality) ==
    [gof |-> IF gradeOfFinality > current THEN gradeOfFinality ELSE current,
     modified |-> gradeOfFinality > current]

\* output metadata: the gadget overwrites the stored value and ignores the result
OutputSetGradeOfFinality(current, gradeOfFinality) == gradeOfFinality

\* the gadget's view of the ledger during one call
Ledger == [msg |-> msgGoF, tx |-> txGoF, out |-> outGoF, log |-> <<>>]

(* ------------------------------------------------------------------ *)
(* walker.Walker: FIFO worklist that enqueues an element once per walk  *)
(* ------------------------------------------------------------------ *)
NewWalker == [stack |-> <<>>, pushed |-> {}]

Push(w, element) ==
    IF element \in w.pushed THEN w
    ELSE [stack |-> Append(w.stack, element), pushed |-> w.pushed \cup {element}]

RECURSIVE PushAll(_, _)
PushAll(w, elements) ==
    IF elements = <<>> THEN w
    ELSE PushAll(Push(w, Head(elements)), Tail(elements))

HasNext(w) == w.stack # <<>>

\* Next returns the front element; PopFront is the walker it leaves behind
NextElement(w) == Head(w.stack)
PopFront(w) == [w EXCEPT !.stack = Tail(w.stack)]

(* ------------------------------------------------------------------ *)
(* SimpleFinalityGadget: message -> payload cascade                     *)
(* ------------------------------------------------------------------ *)
\* the outputs of transaction t overwritten with gradeOfFinality
SetOutputs(out, t, gradeOfFinality) ==
    [o \in OutputIDs |->
        IF o \in Range(Outputs(t)) THEN OutputSetGradeOfFinality(out[o], gradeOfFinality)
        ELSE out[o]]

setPayloadGoF(s, messageID, gradeOfFinality) ==
    IF Payload(messageID) = NoTransaction THEN s
    ELSE
        LET transactionID == Payload(messageID)
            \* a conflicting transaction is evaluated on the weight of its branch
            g == IF TransactionConflicting(transactionID)
                 THEN DefaultBranchGoFTranslation(transactionID, branchWeight[transactionID])
                 ELSE gradeOfFinality
            r == SetGradeOfFinality(s.tx[transactionID], g)
        IN  IF ~r.modified THEN s
            ELSE [s EXCEPT
                    !.tx[transactionID] = r.gof,
                    !.out = SetOutputs(s.out, transactionID, g),
                    !.log = IF g >= opts.BranchGoFReachedLevel
                            THEN Append(@, TransactionConfirmed(transactionID))
                            ELSE @]

\* setMessageGoF that raises the message and leaves its payload alone
setMessageGoF_NoPayload(s, messageID, gradeOfFinality) ==
    LET r == SetGradeOfFinality(s.msg[messageID], gradeOfFinality)
    IN  IF ~r.modified THEN [s |-> s, modified |-> FALSE]
        ELSE
            LET s1 == [s EXCEPT !.msg[messageID] = r.gof]
                s3 == IF gradeOfFinality >= opts.MessageGoFReachedLevel
                      THEN [s1 EXCEPT !.log = Append(@, MessageConfirmed(messageID))]
                      ELSE s1
            IN  [s |-> s3, modified |-> TRUE]

\* setMessageGoF that goes on although SetGradeOfFinality reported no change
setMessageGoF_NoAbort(s, messageID, gradeOfFinality) ==
    LET r == SetGradeOfFinality(s.msg[messageID], gradeOfFinality)
        s1 == [s EXCEPT !.msg[messageID] = r.gof]
        s2 == setPayloadGoF(s1, messageID, gradeOfFinality)
        s3 == IF gradeOfFinality >= opts.MessageGoFReachedLevel
              THEN [s2 EXCEPT !.log = Append(@, MessageConfirmed(messageID))]
              ELSE s2
    IN  [s |-> s3, modified |-> TRUE]

\* returns the ledger after the call and whether the message was modified
setMessageGoF(s, messageID, gradeOfFinality) ==
    LET r == SetGradeOfFinality(s.msg[messageID], gradeOfFinality)
    IN  IF ~r.modified THEN [s |-> s, modified |-> FALSE]
        ELSE
            LET s1 == [s EXCEPT !.msg[messageID] = r.gof]
                s2 == setPayloadGoF(s1, messageID, gradeOfFinality)
                s3 == IF gradeOfFinality >= opts.MessageGoFReachedLevel
                      THEN [s2 EXCEPT !.log = Append(@, MessageConfirmed(messageID))]
                      ELSE s2
            IN  [s |-> s3, modified |-> TRUE]

(* ------------------------------------------------------------------ *)
(* HandleMarker                                                         *)
(* ------------------------------------------------------------------ *)
\* propagateGoF that leaves a past marker at or above the candidate untouched but
\* walks on to its strong parents
propagateGoF_WalkPastMarker(s, messageID, gradeOfFinality, w) ==
    IF IsPastMarker(messageID) /\ s.msg[messageID] >= gradeOfFinality
    THEN [s |-> s, w |-> PushAll(w, StrongParents(messageID))]
    ELSE
        LET r == setMessageGoF(s, messageID, gradeOfFinality)
        IN  IF ~r.modified THEN [s |-> s, w |-> w]
            ELSE [s |-> r.s, w |-> PushAll(w, StrongParents(messageID))]

\* propagateGoF that walks on to the weak parents as well as to the strong ones
propagateGoF_WeakParents(s, messageID, gradeOfFinality, w) ==
    IF IsPastMarker(messageID) /\ s.msg[messageID] >= gradeOfFinality
    THEN [s |-> s, w |-> w]
    ELSE
        LET r == setMessageGoF(s, messageID, gradeOfFinality)
        IN  IF ~r.modified THEN [s |-> s, w |-> w]
            ELSE [s |-> r.s,
                  w |-> PushAll(PushAll(w, WeakParents(messageID)), StrongParents(messageID))]

\* the callback of the backward walk; returns the ledger and the walker
\* propagateGoF that continues the walk at the first strong parent only
propagateGoF_FirstParentOnly(s, messageID, gradeOfFinality, w) ==
    IF IsPastMarker(messageID) /\ s.msg[messageID] >= gradeOfFinality
    THEN [s |-> s, w |-> w]
    ELSE
        LET r == setMessageGoF(s, messageID, gradeOfFinality)
        IN  IF ~r.modified THEN [s |-> s, w |-> w]
            ELSE [s |-> r.s,
                  w |-> IF StrongParents(messageID) = <<>> THEN w
                        ELSE Push(w, Head(StrongParents(messageID)))]

propagateGoF(s, messageID, gradeOfFinality, w) ==
    IF IsPastMarker(messageID) /\ s.msg[messageID] >= gradeOfFinality
    THEN [s |-> s, w |-> w]
    ELSE
        LET r == setMessageGoF(s, messageID, gradeOfFinality)
        IN  IF ~r.modified THEN [s |-> s, w |-> w]
            ELSE [s |-> r.s, w |-> PushAll(w, StrongParents(messageID))]

\* Utils.WalkMessageAndMetadata: runs the callback until the walker is empty;
\* an identifier without message or metadata is skipped
RECURSIVE WalkMessageAndMetadata(_, _, _)
WalkMessageAndMetadata(s, gradeOfFinality, w) ==
    IF ~HasNext(w) THEN s
    ELSE
        LET messageID == NextElement(w)
            rest == PopFront(w)
        IN  IF messageID \notin MessageIDs
            THEN WalkMessageAndMetadata(s, gradeOfFinality, rest)
            ELSE
                LET r == propagateGoF(s, messageID, gradeOfFinality, rest)
                IN  WalkMessageAndMetadata(r.s, gradeOfFinality, r.w)

\* the identifiers the walker of WalkMessageAndMetadata was handed during the walk
RECURSIVE WalkedMessages(_, _, _)
WalkedMessages(s, gradeOfFinality, w) ==
    IF ~HasNext(w) THEN w.pushed
    ELSE
        LET messageID == NextElement(w)
            rest == PopFront(w)
        IN  IF messageID \notin MessageIDs
            THEN WalkedMessages(s, gradeOfFinality, rest)
            ELSE
                LET r == propagateGoF(s, messageID, gradeOfFinality, rest)
                IN  WalkedMessages(r.s, gradeOfFinality, r.w)

\* the messages a call of HandleMarker enqueues: none when it returns before the walk
\* the walk of HandleMarker without the past marker check of lines 234-242: every
\* message the walker hands over goes to setMessageGoF
propagateGoFUnpruned(s, messageID, gradeOfFinality, w) ==
    LET r == setMessageGoF(s, messageID, gradeOfFinality)
    IN  IF ~r.modified THEN [s |-> s, w |-> w]
        ELSE [s |-> r.s, w |-> PushAll(w, StrongParents(messageID))]

RECURSIVE WalkUnpruned(_, _, _)
WalkUnpruned(s, gradeOfFinality, w) ==
    IF ~HasNext(w) THEN s
    ELSE
        LET messageID == NextElement(w)
            rest == PopFront(w)
        IN  IF messageID \notin MessageIDs
            THEN WalkUnpruned(s, gradeOfFinality, rest)
            ELSE
                LET r == propagateGoFUnpruned(s, messageID, gradeOfFinality, rest)
                IN  WalkUnpruned(r.s, gradeOfFinality, r.w)

HandleMarkerUnpruned(s, marker, aw) ==
    LET gradeOfFinality == DefaultMessageGoFTranslation(aw)
        messageID == MessageID(marker)
        gofIncreased == messageID \in MessageIDs /\ gradeOfFinality > s.msg[messageID]
    IN  IF gradeOfFinality = None THEN s
        ELSE IF ~gofIncreased THEN s
        ELSE WalkUnpruned(s, gradeOfFinality, Push(NewWalker, messageID))

\* the messages one walk raises, in the order in which it raises them
RECURSIVE RaisedMessages(_, _, _)
RaisedMessages(s, gradeOfFinality, w) ==
    IF ~HasNext(w) THEN <<>>
    ELSE
        LET messageID == NextElement(w)
            rest == PopFront(w)
        IN  IF messageID \notin MessageIDs
            THEN RaisedMessages(s, gradeOfFinality, rest)
            ELSE
                LET r == propagateGoF(s, messageID, gradeOfFinality, rest)
                IN  (IF r.s.msg # s.msg THEN <<messageID>> ELSE <<>>)
                        \o RaisedMessages(r.s, gradeOfFinality, r.w)

HandleMarkerRaised(s, marker, aw) ==
    LET gradeOfFinality == DefaultMessageGoFTranslation(aw)
        messageID == MessageID(marker)
        gofIncreased == messageID \in MessageIDs /\ gradeOfFinality > s.msg[messageID]
    IN  IF gradeOfFinality = None THEN <<>>
        ELSE IF ~gofIncreased THEN <<>>
        ELSE RaisedMessages(s, gradeOfFinality, Push(NewWalker, messageID))

HandleMarkerWalked(s, marker, aw) ==
    LET gradeOfFinality == DefaultMessageGoFTranslation(aw)
        messageID == MessageID(marker)
        gofIncreased == messageID \in MessageIDs /\ gradeOfFinality > s.msg[messageID]
    IN  IF gradeOfFinality = None THEN {}
        ELSE IF ~gofIncreased THEN {}
        ELSE WalkedMessages(s, gradeOfFinality, Push(NewWalker, messageID))

\* HandleMarker that, like HandleBranch, triggers the confirmation event of its
\* own entity at the end of every call whose level reaches the confirmed level
HandleMarker_TriggerPerCall(s, marker, aw) ==
    LET gradeOfFinality == DefaultMessageGoFTranslation(aw)
        messageID == MessageID(marker)
        gofIncreased == messageID \in MessageIDs /\ gradeOfFinality > s.msg[messageID]
        s1 == IF gradeOfFinality = None \/ ~gofIncreased THEN s
              ELSE WalkMessageAndMetadata(s, gradeOfFinality, Push(NewWalker, messageID))
    IN  IF messageID \in MessageIDs /\ gradeOfFinality >= opts.MessageGoFReachedLevel
           /\ MessageConfirmed(messageID) \notin Range(s1.log)
        THEN [s1 EXCEPT !.log = Append(@, MessageConfirmed(messageID))]
        ELSE s1

\* HandleMarker that takes a weight below every band for a Low one
HandleMarker_NoneAsLow(s, marker, aw) ==
    LET translated == DefaultMessageGoFTranslation(aw)
        gradeOfFinality == IF translated = None THEN Low ELSE translated
        messageID == MessageID(marker)
        gofIncreased == messageID \in MessageIDs /\ gradeOfFinality > s.msg[messageID]
    IN  IF ~gofIncreased THEN s
        ELSE WalkMessageAndMetadata(s, gradeOfFinality, Push(NewWalker, messageID))

\* the error HandleMarker returns: the named result err is never assigned
HandleMarkerErr(s, marker, aw) == "nil"

HandleMarker(s, marker, aw) ==
    LET gradeOfFinality == DefaultMessageGoFTranslation(aw)
        messageID == MessageID(marker)
        gofIncreased == messageID \in MessageIDs /\ gradeOfFinality > s.msg[messageID]
    IN  IF gradeOfFinality = None THEN s
        ELSE IF ~gofIncreased THEN s
        ELSE WalkMessageAndMetadata(s, gradeOfFinality, Push(NewWalker, messageID))

(* ------------------------------------------------------------------ *)
(* HandleBranch                                                         *)
(* ------------------------------------------------------------------ *)
MaxOf(S) == IF S = {} THEN None ELSE CHOOSE x \in S : \A y \in S : y <= x

\* the highest grade of finality among the messages attaching t
MaxAttachmentGoF(msg, t) == MaxOf({msg[m] : m \in Attachments(t)})

\* one output: set its grade of finality, push the consumers not yet in consumerTxs
\* adjustOutputGoF on a walker that takes an element it was given before once more
adjustOutputGoF_Revisit(acc, output, newGradeOfFinality) ==
    LET fresh == SelectSeq(Consumers(output), LAMBDA c : c \notin acc.consumerTxs)
    IN  [out |-> [acc.out EXCEPT ![output] = OutputSetGradeOfFinality(@, newGradeOfFinality)],
         consumerTxs |-> acc.consumerTxs \cup Range(fresh),
         w |-> [stack |-> acc.w.stack \o fresh, pushed |-> acc.w.pushed \cup Range(fresh)]]

\* adjustOutputGoF that sets the output and leaves its consumers alone
adjustOutputGoF_NoConsumers(acc, output, newGradeOfFinality) ==
    [out |-> [acc.out EXCEPT ![output] = OutputSetGradeOfFinality(@, newGradeOfFinality)],
     consumerTxs |-> acc.consumerTxs,
     w |-> acc.w]

adjustOutputGoF(acc, output, newGradeOfFinality) ==
    LET fresh == SelectSeq(Consumers(output), LAMBDA c : c \notin acc.consumerTxs)
    IN  [out |-> [acc.out EXCEPT ![output] = OutputSetGradeOfFinality(@, newGradeOfFinality)],
         consumerTxs |-> acc.consumerTxs \cup Range(fresh),
         w |-> PushAll(acc.w, fresh)]

RECURSIVE AdjustOutputs(_, _, _)
AdjustOutputs(acc, outputs, newGradeOfFinality) ==
    IF outputs = <<>> THEN acc
    ELSE AdjustOutputs(adjustOutputGoF(acc, Head(outputs), newGradeOfFinality),
                       Tail(outputs), newGradeOfFinality)

\* forwardPropagateBranchGoFToTxs that does not look at the attachments
forwardPropagate_NoAttachmentCap(s, candidateTxID, candidateBranchID, newGradeOfFinality, w) ==
    IF candidateTxID \notin TransactionIDs THEN [s |-> s, w |-> w]
    ELSE IF BranchID(candidateTxID) # candidateBranchID THEN [s |-> s, w |-> w]
    ELSE
        LET r == SetGradeOfFinality(s.tx[candidateTxID], newGradeOfFinality)
        IN  IF ~r.modified THEN [s |-> s, w |-> w]
            ELSE
                LET acc == AdjustOutputs([out |-> s.out, consumerTxs |-> {}, w |-> w],
                                         Outputs(candidateTxID), newGradeOfFinality)
                IN  [s |-> [s EXCEPT
                              !.tx[candidateTxID] = r.gof,
                              !.out = acc.out,
                              !.log = IF r.gof >= opts.BranchGoFReachedLevel
                                      THEN Append(@, TransactionConfirmed(candidateTxID))
                                      ELSE @],
                     w |-> acc.w]

\* forwardPropagateBranchGoFToTxs that does not stop outside the branch
forwardPropagate_NoBranchCheck(s, candidateTxID, candidateBranchID, newGradeOfFinality, w) ==
    IF candidateTxID \notin TransactionIDs THEN [s |-> s, w |-> w]
    ELSE IF MaxAttachmentGoF(s.msg, candidateTxID) < newGradeOfFinality THEN [s |-> s, w |-> w]
    ELSE
        LET r == SetGradeOfFinality(s.tx[candidateTxID], newGradeOfFinality)
        IN  IF ~r.modified THEN [s |-> s, w |-> w]
            ELSE
                LET acc == AdjustOutputs([out |-> s.out, consumerTxs |-> {}, w |-> w],
                                         Outputs(candidateTxID), newGradeOfFinality)
                IN  [s |-> [s EXCEPT
                              !.tx[candidateTxID] = r.gof,
                              !.out = acc.out,
                              !.log = IF r.gof >= opts.BranchGoFReachedLevel
                                      THEN Append(@, TransactionConfirmed(candidateTxID))
                                      ELSE @],
                     w |-> acc.w]

\* returns the ledger and the walker
\* forwardPropagateBranchGoFToTxs that announces a candidate it finds no metadata of
forwardPropagate_ConfirmMissing(s, candidateTxID, candidateBranchID, newGradeOfFinality, w) ==
    IF candidateTxID \notin TransactionIDs
    THEN [s |-> [s EXCEPT !.log = IF newGradeOfFinality >= opts.BranchGoFReachedLevel
                                  THEN Append(@, TransactionConfirmed(candidateTxID))
                                  ELSE @],
          w |-> w]
    ELSE IF BranchID(candidateTxID) # candidateBranchID THEN [s |-> s, w |-> w]
    ELSE IF MaxAttachmentGoF(s.msg, candidateTxID) < newGradeOfFinality THEN [s |-> s, w |-> w]
    ELSE
        LET r == SetGradeOfFinality(s.tx[candidateTxID], newGradeOfFinality)
        IN  IF ~r.modified THEN [s |-> s, w |-> w]
            ELSE
                LET acc == AdjustOutputs([out |-> s.out, consumerTxs |-> {}, w |-> w],
                                         Outputs(candidateTxID), newGradeOfFinality)
                IN  [s |-> [s EXCEPT
                              !.tx[candidateTxID] = r.gof,
                              !.out = acc.out,
                              !.log = IF r.gof >= opts.BranchGoFReachedLevel
                                      THEN Append(@, TransactionConfirmed(candidateTxID))
                                      ELSE @],
                     w |-> acc.w]

\* forwardPropagateBranchGoFToTxs that goes on although SetGradeOfFinality reported no change
forwardPropagate_NoAbort(s, candidateTxID, candidateBranchID, newGradeOfFinality, w) ==
    IF candidateTxID \notin TransactionIDs THEN [s |-> s, w |-> w]
    ELSE IF BranchID(candidateTxID) # candidateBranchID THEN [s |-> s, w |-> w]
    ELSE IF MaxAttachmentGoF(s.msg, candidateTxID) < newGradeOfFinality THEN [s |-> s, w |-> w]
    ELSE
        LET r == SetGradeOfFinality(s.tx[candidateTxID], newGradeOfFinality)
            acc == AdjustOutputs([out |-> s.out, consumerTxs |-> {}, w |-> w],
                                 Outputs(candidateTxID), newGradeOfFinality)
        IN  [s |-> [s EXCEPT
                      !.tx[candidateTxID] = r.gof,
                      !.out = acc.out,
                      !.log = IF r.gof >= opts.BranchGoFReachedLevel
                              THEN Append(@, TransactionConfirmed(candidateTxID))
                              ELSE @],
             w |-> acc.w]

forwardPropagateBranchGoFToTxs(s, candidateTxID, candidateBranchID, newGradeOfFinality, w) ==
    IF candidateTxID \notin TransactionIDs THEN [s |-> s, w |-> w]
    ELSE IF BranchID(candidateTxID) # candidateBranchID THEN [s |-> s, w |-> w]
    ELSE IF MaxAttachmentGoF(s.msg, candidateTxID) < newGradeOfFinality THEN [s |-> s, w |-> w]
    ELSE
        LET r == SetGradeOfFinality(s.tx[candidateTxID], newGradeOfFinality)
        IN  IF ~r.modified THEN [s |-> s, w |-> w]
            ELSE
                LET acc == AdjustOutputs([out |-> s.out, consumerTxs |-> {}, w |-> w],
                                         Outputs(candidateTxID), newGradeOfFinality)
                IN  [s |-> [s EXCEPT
                              !.tx[candidateTxID] = r.gof,
                              !.out = acc.out,
                              !.log = IF r.gof >= opts.BranchGoFReachedLevel
                                      THEN Append(@, TransactionConfirmed(candidateTxID))
                                      ELSE @],
                     w |-> acc.w]

RECURSIVE WalkTransactions(_, _, _, _)
WalkTransactions(s, branchID, newGradeOfFinality, w) ==
    IF ~HasNext(w) THEN s
    ELSE
        LET r == forwardPropagateBranchGoFToTxs(s, NextElement(w), branchID,
                                                newGradeOfFinality, PopFront(w))
        IN  WalkTransactions(r.s, branchID, newGradeOfFinality, r.w)

\* the transactions the walker of HandleBranch was handed during the call
RECURSIVE WalkedTransactions(_, _, _, _)
WalkedTransactions(s, branchID, newGradeOfFinality, w) ==
    IF ~HasNext(w) THEN w.pushed
    ELSE
        LET r == forwardPropagateBranchGoFToTxs(s, NextElement(w), branchID,
                                                newGradeOfFinality, PopFront(w))
        IN  WalkedTransactions(r.s, branchID, newGradeOfFinality, r.w)

HandleBranchWalked(s, branchID, aw) ==
    WalkedTransactions(s, branchID, DefaultBranchGoFTranslation(branchID, aw),
                       Push(NewWalker, TransactionIDOfBranch(branchID)))

\* the error HandleBranch returns: the named result err is never assigned
NoError == "nil"
ErrUnsupportedBranchType == "unsupported branch type"
HandleBranchErr(s, branchID, aw) == NoError

\* HandleBranch that triggers BranchConfirmed only when its walk raised a transaction
HandleBranch_TriggerOnRaise(s, branchID, aw) ==
    LET newGradeOfFinality == DefaultBranchGoFTranslation(branchID, aw)
        s1 == WalkTransactions(s, branchID, newGradeOfFinality,
                               Push(NewWalker, TransactionIDOfBranch(branchID)))
    IN  IF newGradeOfFinality >= opts.BranchGoFReachedLevel /\ s1.tx # s.tx
        THEN [s1 EXCEPT !.log = Append(@, BranchConfirmed(branchID))]
        ELSE s1

HandleBranch(s, branchID, aw) ==
    LET newGradeOfFinality == DefaultBranchGoFTranslation(branchID, aw)
        s1 == WalkTransactions(s, branchID, newGradeOfFinality,
                               Push(NewWalker, TransactionIDOfBranch(branchID)))
    IN  IF newGradeOfFinality >= opts.BranchGoFReachedLevel
        THEN [s1 EXCEPT !.log = Append(@, BranchConfirmed(branchID))]
        ELSE s1

(* ------------------------------------------------------------------ *)
(* The gadget as a state machine: construction                         *)
(* ------------------------------------------------------------------ *)
\* defaultOpts and the configurations the gadget is constructed with
DefaultOptions == [BranchGoFReachedLevel |-> High, MessageGoFReachedLevel |-> High]

OptionsSet ==
    {DefaultOptions,
     [BranchGoFReachedLevel |-> Low, MessageGoFReachedLevel |-> Low],
     [BranchGoFReachedLevel |-> Medium, MessageGoFReachedLevel |-> High],
     [BranchGoFReachedLevel |-> High, MessageGoFReachedLevel |-> Medium]}

Callers == {1, 2}

\* a caller that is in no call
Idle == [pc |-> "idle", op |-> "none", g |-> None, branch |-> "none", aw |-> 0,
         w |-> NewWalker, cur |-> "none", gp |-> None, outs |-> <<>>, consumerTxs |-> {},
         attachments |-> {}, attachment |-> "none", maxAttachmentGoF |-> None,
         obs |-> <<>>]

Records == MessageIDs \cup TransactionIDs

\* the messages reachable from the messages of S over strong parent edges, S included
RECURSIVE StrongClosure(_)
StrongClosure(S) ==
    LET T == S \cup UNION {Range(StrongParents(m)) : m \in S}
    IN  IF T = S THEN S ELSE StrongClosure(T)

StrongPastCone(m) == StrongClosure({m})

\* no SetGradeOfFinality call was made and no HandleMarker call was started yet
NoHistory == [tried |-> [r \in Records |-> None], once |-> {}, twice |-> {},
              due |-> [m \in MessageIDs |-> None]]

\* no call was made yet
NoEntry == [ledger |-> <<>>, emitted |-> <<>>, id |-> "none", aw |-> 0]

\* no query was made yet
NoProbe == [fn |-> "none", arg |-> "none", result |-> FALSE]

Init ==
    /\ msgGoF = [m \in MessageIDs |-> None]
    /\ txGoF = [t \in TransactionIDs |-> None]
    /\ outGoF = [o \in OutputIDs |-> None]
    /\ branchWeight = [b \in BranchIDs |-> 0]
    /\ opts \in OptionsSet
    /\ emitted = [e \in AllEvents |-> 0]
    /\ procs = [p \in Callers |-> Idle]
    /\ calls = 0
    /\ history = NoHistory
    /\ highestWeight = [b \in BranchIDs |-> 0]
    /\ probe = NoProbe
    /\ entry = NoEntry

(* ------------------------------------------------------------------ *)
(* Queries                                                              *)
(* ------------------------------------------------------------------ *)
\* a marker no message was booked for is not confirmed
IsMarkerConfirmed(marker) ==
    LET messageID == MessageID(marker)
    IN  IF messageID = EmptyMessageID THEN FALSE
        ELSE /\ messageID \in MessageIDs
             /\ msgGoF[messageID] >= opts.MessageGoFReachedLevel

\* a message without metadata is not confirmed
IsMessageConfirmed(msgID) ==
    /\ msgID \in MessageIDs
    /\ msgGoF[msgID] >= opts.MessageGoFReachedLevel

\* UTXODAG.BranchGradeOfFinality: a conflict branch carries the grade of finality
\* of the transaction it is derived from; an unknown branch yields None
BranchGradeOfFinality(branchID) ==
    IF TransactionIDOfBranch(branchID) \in TransactionIDs
    THEN txGoF[TransactionIDOfBranch(branchID)]
    ELSE None

IsBranchConfirmed(branchID) ==
    BranchGradeOfFinality(branchID) >= opts.BranchGoFReachedLevel

\* IsOutputConfirmed that compares with the level configured for messages
IsOutputConfirmed_MessageLevel(outputID) ==
    /\ outputID \in OutputIDs
    /\ outGoF[outputID] >= opts.MessageGoFReachedLevel

IsOutputConfirmed(outputID) ==
    /\ outputID \in OutputIDs
    /\ outGoF[outputID] >= opts.BranchGoFReachedLevel

\* an unknown transaction has no metadata to consume: confirmed stays false
IsTransactionConfirmed(transactionID) ==
    /\ transactionID \in TransactionIDs
    /\ txGoF[transactionID] >= opts.MessageGoFReachedLevel

\* rejection is not implemented: both answer false whatever the identifier
IsTransactionRejected(transactionID) == FALSE

\* IsBranchRejected that takes a branch for rejected once another one is confirmed
IsBranchRejected_OtherConfirmed(branchID) ==
    \E other \in BranchIDs \ {branchID} : IsBranchConfirmed(other)

IsBranchRejected(branchID) == FALSE

(* ------------------------------------------------------------------ *)
(* The queries a caller asks while the gadget works                     *)
(* ------------------------------------------------------------------ *)
\* a query reads metadata and options and hands its result to the caller
Asked(fn, arg, result) ==
    /\ probe' = [fn |-> fn, arg |-> arg, result |-> result]
    /\ UNCHANGED <<msgGoF, txGoF, outGoF, branchWeight, highestWeight, opts, emitted,
                   procs, calls, history, entry>>

AskIsMarkerConfirmed(marker) ==
    Asked("IsMarkerConfirmed", marker, IsMarkerConfirmed(marker))

\* IsMessageConfirmed that announces the message it finds confirmed
AskIsMessageConfirmed_Triggering(msgID) ==
    /\ probe' = [fn |-> "IsMessageConfirmed", arg |-> msgID,
                 result |-> IsMessageConfirmed(msgID)]
    /\ emitted' = [emitted EXCEPT ![MessageConfirmed(msgID)] =
                      IF IsMessageConfirmed(msgID) /\ @ < 1 THEN @ + 1 ELSE @]
    /\ UNCHANGED <<msgGoF, txGoF, outGoF, branchWeight, highestWeight, opts,
                   procs, calls, history, entry>>

AskIsMessageConfirmed(msgID) ==
    Asked("IsMessageConfirmed", msgID, IsMessageConfirmed(msgID))

AskIsBranchConfirmed(branchID) ==
    Asked("IsBranchConfirmed", branchID, IsBranchConfirmed(branchID))

AskIsTransactionConfirmed(transactionID) ==
    Asked("IsTransactionConfirmed", transactionID, IsTransactionConfirmed(transactionID))

AskIsOutputConfirmed(outputID) ==
    Asked("IsOutputConfirmed", outputID, IsOutputConfirmed(outputID))

AskIsTransactionRejected(transactionID) ==
    Asked("IsTransactionRejected", transactionID, IsTransactionRejected(transactionID))

AskIsBranchRejected(branchID) ==
    Asked("IsBranchRejected", branchID, IsBranchRejected(branchID))

(* ------------------------------------------------------------------ *)
(* The default translations applied to approval weights of a grid      *)
(* ------------------------------------------------------------------ *)

\* approval weights are hundredths: the grid is 0.00, 0.01, .. WeightGridMax / 100
WeightGridMax == 100
WeightGrid == 0..WeightGridMax

InitTranslation ==
    /\ msgGoF = [m \in MessageIDs |-> None]
    /\ txGoF = [t \in TransactionIDs |-> None]
    /\ outGoF = [o \in OutputIDs |-> None]
    /\ branchWeight = [b \in BranchIDs |-> 0]
    /\ highestWeight = [b \in BranchIDs |-> 0]
    /\ opts = DefaultOptions
    /\ emitted = [e \in AllEvents |-> 0]
    /\ procs = [p \in Callers |-> Idle]
    /\ calls = 0
    /\ history = NoHistory
    /\ \E aw \in WeightGrid : probe = [fn |-> "input", arg |-> aw, result |-> None]
    /\ entry = NoEntry

Translated(fn, result) ==
    /\ probe.fn = "input"
    /\ probe' = [fn |-> fn, arg |-> probe.arg, result |-> result]
    /\ UNCHANGED <<msgGoF, txGoF, outGoF, branchWeight, highestWeight, opts, emitted,
                   procs, calls, history, entry>>

TranslateMessageWeight ==
    Translated("DefaultMessageGoFTranslation", DefaultMessageGoFTranslation(probe.arg))

TranslateBranchWeight(branchID) ==
    Translated("DefaultBranchGoFTranslation", DefaultBranchGoFTranslation(branchID, probe.arg))

NextTranslation ==
    \/ TranslateMessageWeight
    \/ \E branchID \in BranchIDs \cup {MasterBranchID} : TranslateBranchWeight(branchID)

SpecTranslation == InitTranslation /\ [][NextTranslation]_vars

(* ------------------------------------------------------------------ *)
(* The gadget under concurrent callers: every access to a metadata      *)
(* record and every call of the handlers of an event is one step        *)
(* ------------------------------------------------------------------ *)
\* the inputs the concurrent callers deliver
ConcurrentMarkers == {"k1", "k4", "k6"}
ConcurrentBranchIDs == {"TB"}
ConcurrentWeights == {0, 30, 50}

\* book-keeping of one SetGradeOfFinality call on a message or transaction
Observe(h, rec, gradeOfFinality, modified) ==
    [h EXCEPT
       !.tried = [h.tried EXCEPT ![rec] = IF gradeOfFinality > @ THEN gradeOfFinality ELSE @],
       !.once = IF modified THEN h.once \cup {<<rec, gradeOfFinality>>} ELSE h.once,
       !.twice = IF modified /\ <<rec, gradeOfFinality>> \in h.once
                 THEN h.twice \cup {<<rec, gradeOfFinality>>} ELSE h.twice]

\* book-keeping of one HandleMarker call: the level translated from the weight is due
\* to the marker's message and to every message of its strong past cone
Due(h, marker, aw) ==
    LET gradeOfFinality == DefaultMessageGoFTranslation(aw)
        messageID == MessageID(marker)
    IN  IF messageID \notin MessageIDs THEN h
        ELSE [h EXCEPT !.due = [m \in MessageIDs |->
                    IF m \in StrongPastCone(messageID) /\ gradeOfFinality > h.due[m]
                    THEN gradeOfFinality ELSE h.due[m]]]

Trigger(log) == emitted' = [e \in AllEvents |-> emitted[e] + Occurrences(log, e)]

\* the caller returns from its call
Return(pr) == Idle

\* end of the callback that pushes the first strong parent only
MessageDone_FirstParentOnly(pr) ==
    [pr EXCEPT !.pc = "walk",
               !.w = IF StrongParents(pr.cur) = <<>> THEN @
                     ELSE Push(@, Head(StrongParents(pr.cur)))]

\* end of the callback: the strong parents are pushed
MessageDone(pr) ==
    [pr EXCEPT !.pc = "walk", !.w = PushAll(@, StrongParents(pr.cur))]

\* setMessageGoF after setPayloadGoF has returned: the event is due when the level
\* reaches the confirmed level, otherwise the callback goes on to the strong parents
PayloadDone(pr) ==
    IF pr.g >= opts.MessageGoFReachedLevel
    THEN [pr EXCEPT !.pc = "messageConfirmed"]
    ELSE MessageDone(pr)

\* setPayloadGoF after the last output: the event is due when the level of the
\* transaction reaches the confirmed level, otherwise setPayloadGoF returns
OutputsDone(pr) ==
    IF pr.gp >= opts.BranchGoFReachedLevel
    THEN [pr EXCEPT !.pc = "payloadTransactionConfirmed", !.outs = <<>>, !.gp = None]
    ELSE PayloadDone([pr EXCEPT !.outs = <<>>, !.gp = None])

\* HandleMarker up to the walk: translation, the marker's message, the check that the
\* level is raised
StartHandleMarker(p, marker, aw) ==
    /\ procs[p].pc = "idle"
    /\ LET gradeOfFinality == DefaultMessageGoFTranslation(aw)
           messageID == MessageID(marker)
           gofIncreased == messageID \in MessageIDs /\ gradeOfFinality > msgGoF[messageID]
       IN  procs' = [procs EXCEPT ![p] =
                IF gradeOfFinality = None \/ ~gofIncreased THEN Idle
                ELSE [Idle EXCEPT !.pc = "walk", !.op = "HandleMarker",
                                  !.g = gradeOfFinality,
                                  !.w = Push(NewWalker, messageID)]]
    /\ UNCHANGED <<msgGoF, txGoF, outGoF, branchWeight, highestWeight, opts, probe, emitted>>

\* walk that stops at every past marker that has a grade of finality, also one below
\* the candidate
WalkNext_StopAtRaisedMarker(p) ==
    LET pr == procs[p] IN
    /\ pr.pc = "walk"
    /\ procs' = [procs EXCEPT ![p] =
            IF ~HasNext(pr.w) THEN Return(pr)
            ELSE LET messageID == NextElement(pr.w)
                     rest == PopFront(pr.w)
                 IN  IF messageID \notin MessageIDs THEN [pr EXCEPT !.w = rest]
                     ELSE IF IsPastMarker(messageID) /\ msgGoF[messageID] > None
                     THEN [pr EXCEPT !.w = rest]
                     ELSE [pr EXCEPT !.w = rest, !.cur = messageID, !.pc = "setMessageGoF"]]
    /\ UNCHANGED <<msgGoF, txGoF, outGoF, branchWeight, opts, probe, highestWeight, emitted,
                   calls>>

\* the walker hands the next message to propagateGoF, which checks the past marker rule
WalkNext(p) ==
    LET pr == procs[p] IN
    /\ pr.pc = "walk"
    /\ procs' = [procs EXCEPT ![p] =
            IF ~HasNext(pr.w) THEN Return(pr)
            ELSE LET messageID == NextElement(pr.w)
                     rest == PopFront(pr.w)
                 IN  IF messageID \notin MessageIDs THEN [pr EXCEPT !.w = rest]
                     ELSE IF IsPastMarker(messageID) /\ msgGoF[messageID] >= pr.g
                     THEN [pr EXCEPT !.w = rest]
                     ELSE [pr EXCEPT !.w = rest, !.cur = messageID, !.pc = "setMessageGoF"]]
    /\ UNCHANGED <<msgGoF, txGoF, outGoF, branchWeight, opts, probe, highestWeight, emitted,
                   calls>>

\* the message is raised to the candidate
SetMessageGoF(p) ==
    LET pr == procs[p]
        r == SetGradeOfFinality(msgGoF[pr.cur], pr.g)
        seen == [pr EXCEPT !.obs = <<pr.cur, pr.g, r.modified>>]
    IN
    /\ pr.pc = "setMessageGoF"
    /\ msgGoF' = [msgGoF EXCEPT ![pr.cur] = r.gof]
    /\ procs' = [procs EXCEPT ![p] =
            IF ~r.modified THEN [seen EXCEPT !.pc = "walk"]
            ELSE IF Payload(pr.cur) # NoTransaction THEN [seen EXCEPT !.pc = "setPayloadGoF"]
            ELSE PayloadDone(seen)]
    /\ UNCHANGED <<txGoF, outGoF, branchWeight, opts, probe, highestWeight, emitted, calls>>

\* setPayloadGoF up to the grade of finality the transaction is evaluated on: the
\* level of the message, or the level the weight of the branch translates to now
SetPayloadGoF(p) ==
    LET pr == procs[p]
        transactionID == Payload(pr.cur)
        gradeOfFinality ==
            IF TransactionConflicting(transactionID)
            THEN DefaultBranchGoFTranslation(transactionID, branchWeight[transactionID])
            ELSE pr.g
    IN
    /\ pr.pc = "setPayloadGoF"
    /\ procs' = [procs EXCEPT ![p] =
            [pr EXCEPT !.pc = "setPayloadTransactionGoF", !.gp = gradeOfFinality]]
    /\ UNCHANGED <<msgGoF, txGoF, outGoF, branchWeight, opts, probe, highestWeight, emitted,
                   calls>>

\* the payload cascade that writes the outputs also when the transaction was not raised
SetPayloadTransactionGoF_NoAbort(p) ==
    LET pr == procs[p]
        transactionID == Payload(pr.cur)
        r == SetGradeOfFinality(txGoF[transactionID], pr.gp)
        seen == [pr EXCEPT !.obs = <<transactionID, pr.gp, r.modified>>]
    IN
    /\ pr.pc = "setPayloadTransactionGoF"
    /\ txGoF' = [txGoF EXCEPT ![transactionID] = r.gof]
    /\ procs' = [procs EXCEPT ![p] =
            [seen EXCEPT !.pc = "setOutputGoF", !.outs = Outputs(transactionID)]]
    /\ UNCHANGED <<msgGoF, outGoF, branchWeight, opts, probe, highestWeight, emitted, calls>>

\* the transaction of the payload is raised to the grade of finality evaluated before
SetPayloadTransactionGoF(p) ==
    LET pr == procs[p]
        transactionID == Payload(pr.cur)
        r == SetGradeOfFinality(txGoF[transactionID], pr.gp)
        seen == [pr EXCEPT !.obs = <<transactionID, pr.gp, r.modified>>]
    IN
    /\ pr.pc = "setPayloadTransactionGoF"
    /\ txGoF' = [txGoF EXCEPT ![transactionID] = r.gof]
    /\ procs' = [procs EXCEPT ![p] =
            IF ~r.modified THEN PayloadDone([seen EXCEPT !.gp = None])
            ELSE [seen EXCEPT !.pc = "setOutputGoF", !.outs = Outputs(transactionID)]]
    /\ UNCHANGED <<msgGoF, outGoF, branchWeight, opts, probe, highestWeight, emitted, calls>>

\* one output of the payload transaction is set to the level of the transaction
SetOutputGoF(p) ==
    LET pr == procs[p]
        output == Head(pr.outs)
    IN
    /\ pr.pc = "setOutputGoF"
    /\ outGoF' = [outGoF EXCEPT ![output] = OutputSetGradeOfFinality(@, pr.gp)]
    /\ procs' = [procs EXCEPT ![p] =
            IF Tail(pr.outs) # <<>> THEN [pr EXCEPT !.outs = Tail(@)]
            ELSE OutputsDone(pr)]
    /\ UNCHANGED <<msgGoF, txGoF, branchWeight, opts, probe, highestWeight, emitted, calls>>

\* setPayloadGoF calls the handlers of TransactionConfirmed and returns
PayloadTransactionConfirmed(p) ==
    LET pr == procs[p] IN
    /\ pr.pc = "payloadTransactionConfirmed"
    /\ Trigger(<<TransactionConfirmed(Payload(pr.cur))>>)
    /\ procs' = [procs EXCEPT ![p] = PayloadDone(pr)]
    /\ UNCHANGED <<msgGoF, txGoF, outGoF, branchWeight, opts, probe, highestWeight, calls>>

\* setMessageGoF calls the handlers of MessageConfirmed and returns to the callback
MessageConfirmedTriggered(p) ==
    LET pr == procs[p] IN
    /\ pr.pc = "messageConfirmed"
    /\ Trigger(<<MessageConfirmed(pr.cur)>>)
    /\ procs' = [procs EXCEPT ![p] = MessageDone(pr)]
    /\ UNCHANGED <<msgGoF, txGoF, outGoF, branchWeight, opts, probe, highestWeight, calls>>

\* the approval weight manager stores the new weight of a branch and reports it to
\* the gadget
UpdateBranchWeight(p, branchID, aw) ==
    /\ procs[p].pc = "idle"
    /\ branchWeight' = [branchWeight EXCEPT ![branchID] = aw]
    /\ highestWeight' = [highestWeight EXCEPT ![branchID] = IF aw > @ THEN aw ELSE @]
    /\ procs' = [procs EXCEPT ![p] =
            [Idle EXCEPT !.pc = "handleBranch", !.op = "HandleBranch",
                         !.branch = branchID, !.aw = aw]]
    /\ UNCHANGED <<msgGoF, txGoF, outGoF, opts, probe, emitted>>

\* HandleBranch up to its loop: translation and the walker with the defining transaction
StartHandleBranch(p) ==
    LET pr == procs[p] IN
    /\ pr.pc = "handleBranch"
    /\ procs' = [procs EXCEPT ![p] =
            [pr EXCEPT !.pc = "forward", !.aw = 0,
                       !.g = DefaultBranchGoFTranslation(pr.branch, pr.aw),
                       !.w = Push(NewWalker, TransactionIDOfBranch(pr.branch))]]
    /\ UNCHANGED <<msgGoF, txGoF, outGoF, branchWeight, opts, probe, highestWeight, emitted,
                   calls>>

\* forward propagation that does not compare the candidate with the attachments
AttachmentsDone_NoAttachmentCap(pr) ==
    IF pr.attachments # {} THEN [pr EXCEPT !.pc = "compareAttachmentGoF"]
    ELSE [pr EXCEPT !.pc = "setTransactionGoF", !.maxAttachmentGoF = None]

\* forwardPropagateBranchGoFToTxs after an attachment: the next attachment is looked
\* at, or, after the last one, the candidate is compared with maxAttachmentGoF
AttachmentsDone(pr) ==
    IF pr.attachments # {} THEN [pr EXCEPT !.pc = "compareAttachmentGoF"]
    ELSE IF pr.maxAttachmentGoF < pr.g
    THEN [pr EXCEPT !.pc = "forward", !.maxAttachmentGoF = None]
    ELSE [pr EXCEPT !.pc = "setTransactionGoF", !.maxAttachmentGoF = None]

\* loop head that looks at the first element of the walker without taking it out
ForwardNext_NoPop(p) ==
    LET pr == procs[p] IN
    /\ pr.pc = "forward"
    /\ IF ~HasNext(pr.w)
       THEN /\ procs' = [procs EXCEPT ![p] = Return(pr)]
            /\ Trigger(IF pr.g >= opts.BranchGoFReachedLevel
                       THEN <<BranchConfirmed(pr.branch)>> ELSE <<>>)
       ELSE /\ LET candidateTxID == NextElement(pr.w)
               IN  procs' = [procs EXCEPT ![p] =
                       IF \/ candidateTxID \notin TransactionIDs
                          \/ BranchID(candidateTxID) # pr.branch
                       THEN pr
                       ELSE AttachmentsDone(
                                [pr EXCEPT !.cur = candidateTxID,
                                           !.attachments = Attachments(candidateTxID),
                                           !.maxAttachmentGoF = None])]
            /\ UNCHANGED emitted
    /\ UNCHANGED <<msgGoF, txGoF, outGoF, branchWeight, opts, probe, highestWeight,
                   calls>>

\* loop head of HandleBranch: the next transaction is taken from the walker, and
\* forwardPropagateBranchGoFToTxs checks that it is in the branch
ForwardNext(p) ==
    LET pr == procs[p] IN
    /\ pr.pc = "forward"
    /\ IF ~HasNext(pr.w)
       THEN /\ procs' = [procs EXCEPT ![p] = Return(pr)]
            /\ Trigger(IF pr.g >= opts.BranchGoFReachedLevel
                       THEN <<BranchConfirmed(pr.branch)>> ELSE <<>>)
       ELSE /\ LET candidateTxID == NextElement(pr.w)
                   rest == PopFront(pr.w)
               IN  procs' = [procs EXCEPT ![p] =
                       IF \/ candidateTxID \notin TransactionIDs
                          \/ BranchID(candidateTxID) # pr.branch
                       THEN [pr EXCEPT !.w = rest]
                       ELSE AttachmentsDone(
                                [pr EXCEPT !.w = rest, !.cur = candidateTxID,
                                           !.attachments = Attachments(candidateTxID),
                                           !.maxAttachmentGoF = None])]
            /\ UNCHANGED emitted
    /\ UNCHANGED <<msgGoF, txGoF, outGoF, branchWeight, opts, probe, highestWeight,
                   calls>>

\* the grade of finality of one attaching message is read and compared with
\* maxAttachmentGoF
CompareAttachmentGoF(p) ==
    LET pr == procs[p] IN
    /\ pr.pc = "compareAttachmentGoF"
    /\ \E attachment \in pr.attachments :
         procs' = [procs EXCEPT ![p] =
            IF pr.maxAttachmentGoF < msgGoF[attachment]
            THEN [pr EXCEPT !.pc = "assignAttachmentGoF", !.attachment = attachment]
            ELSE AttachmentsDone([pr EXCEPT !.attachments = @ \ {attachment}])]
    /\ UNCHANGED <<msgGoF, txGoF, outGoF, branchWeight, opts, probe, highestWeight, emitted,
                   calls>>

\* the grade of finality of the attaching message is read once more and kept as
\* maxAttachmentGoF
AssignAttachmentGoF(p) ==
    LET pr == procs[p] IN
    /\ pr.pc = "assignAttachmentGoF"
    /\ procs' = [procs EXCEPT ![p] =
            AttachmentsDone([pr EXCEPT !.maxAttachmentGoF = msgGoF[pr.attachment],
                                       !.attachments = @ \ {pr.attachment},
                                       !.attachment = "none"])]
    /\ UNCHANGED <<msgGoF, txGoF, outGoF, branchWeight, opts, probe, highestWeight, emitted,
                   calls>>

\* forward propagation that does not look at what SetGradeOfFinality returns: it
\* takes every call for a change and goes on to the outputs
SetTransactionGoF_NoAbort(p) ==
    LET pr == procs[p]
        r == SetGradeOfFinality(txGoF[pr.cur], pr.g)
        modified == TRUE
        seen == [pr EXCEPT !.obs = <<pr.cur, pr.g, modified>>]
    IN
    /\ pr.pc = "setTransactionGoF"
    /\ txGoF' = [txGoF EXCEPT ![pr.cur] = r.gof]
    /\ procs' = [procs EXCEPT ![p] =
            IF ~modified THEN [seen EXCEPT !.pc = "forward"]
            ELSE [seen EXCEPT !.pc = "adjustOutputGoF", !.outs = Outputs(pr.cur),
                              !.consumerTxs = {}]]
    /\ UNCHANGED <<msgGoF, outGoF, branchWeight, opts, probe, highestWeight, emitted, calls>>

\* the transaction is raised to the candidate; the walk goes on to its outputs only
\* when SetGradeOfFinality reports a change
SetTransactionGoF(p) ==
    LET pr == procs[p]
        r == SetGradeOfFinality(txGoF[pr.cur], pr.g)
        seen == [pr EXCEPT !.obs = <<pr.cur, pr.g, r.modified>>]
    IN
    /\ pr.pc = "setTransactionGoF"
    /\ txGoF' = [txGoF EXCEPT ![pr.cur] = r.gof]
    /\ procs' = [procs EXCEPT ![p] =
            IF ~r.modified THEN [seen EXCEPT !.pc = "forward"]
            ELSE [seen EXCEPT !.pc = "adjustOutputGoF", !.outs = Outputs(pr.cur),
                              !.consumerTxs = {}]]
    /\ UNCHANGED <<msgGoF, outGoF, branchWeight, opts, probe, highestWeight, emitted, calls>>

AdjustOutputGoF(p) ==
    LET pr == procs[p]
        acc == adjustOutputGoF([out |-> outGoF, consumerTxs |-> pr.consumerTxs, w |-> pr.w],
                               Head(pr.outs), pr.g)
    IN
    /\ pr.pc = "adjustOutputGoF"
    /\ outGoF' = acc.out
    /\ procs' = [procs EXCEPT ![p] =
            [pr EXCEPT !.outs = Tail(@), !.consumerTxs = acc.consumerTxs, !.w = acc.w,
                       !.pc = IF Tail(pr.outs) = <<>> THEN "confirmTransaction" ELSE @]]
    /\ UNCHANGED <<msgGoF, txGoF, branchWeight, opts, probe, highestWeight, emitted,
                   calls>>

\* the event is decided on the grade of finality the metadata holds now
ConfirmTransaction(p) ==
    LET pr == procs[p] IN
    /\ pr.pc = "confirmTransaction"
    /\ procs' = [procs EXCEPT ![p] =
            [pr EXCEPT !.pc = IF txGoF[pr.cur] >= opts.BranchGoFReachedLevel
                              THEN "transactionConfirmed" ELSE "forward",
                       !.consumerTxs = {}]]
    /\ UNCHANGED <<msgGoF, txGoF, outGoF, branchWeight, opts, probe, highestWeight, emitted,
                   calls>>

\* forwardPropagateBranchGoFToTxs calls the handlers of TransactionConfirmed
TransactionConfirmedTriggered(p) ==
    LET pr == procs[p] IN
    /\ pr.pc = "transactionConfirmed"
    /\ Trigger(<<TransactionConfirmed(pr.cur)>>)
    /\ procs' = [procs EXCEPT ![p] = [pr EXCEPT !.pc = "forward"]]
    /\ UNCHANGED <<msgGoF, txGoF, outGoF, branchWeight, opts, probe, highestWeight,
                   calls>>

InitConcurrent == Init /\ opts = DefaultOptions

\* the next step of the call that caller p is in
CallerStep(p) ==
    \/ WalkNext(p)
    \/ SetMessageGoF(p)
    \/ SetPayloadGoF(p)
    \/ SetPayloadTransactionGoF(p)
    \/ SetOutputGoF(p)
    \/ PayloadTransactionConfirmed(p)
    \/ MessageConfirmedTriggered(p)
    \/ StartHandleBranch(p)
    \/ ForwardNext(p)
    \/ CompareAttachmentGoF(p)
    \/ AssignAttachmentGoF(p)
    \/ SetTransactionGoF(p)
    \/ AdjustOutputGoF(p)
    \/ ConfirmTransaction(p)
    \/ TransactionConfirmedTriggered(p)

\* one more call is started while fewer than max were
CallStarted(max) ==
    /\ calls < max
    /\ calls' = calls + 1

\* a HandleMarker call of one of the concurrent callers is started
ConcurrentMarkerCallStarted(marker, aw) ==
    /\ CallStarted(MaxCalls)
    /\ history' = Due(history, marker, aw)
    /\ UNCHANGED entry

\* a HandleBranch call of one of the concurrent callers is started
ConcurrentBranchCallStarted == CallStarted(MaxCalls) /\ UNCHANGED <<history, entry>>

\* the SetGradeOfFinality call on a message or transaction that the step of caller p
\* made, if it made one, is entered in the history
Recorded(p) ==
    history' = IF procs[p].pc \in {"setMessageGoF", "setPayloadTransactionGoF",
                                   "setTransactionGoF"}
               THEN Observe(history, procs'[p].obs[1], procs'[p].obs[2], procs'[p].obs[3])
               ELSE history

\* a step of one of the concurrent callers
ConcurrentStep(p) == CallerStep(p) /\ Recorded(p) /\ UNCHANGED entry

NextConcurrent ==
    \/ \E p \in Callers, marker \in ConcurrentMarkers, aw \in ConcurrentWeights :
            StartHandleMarker(p, marker, aw) /\ ConcurrentMarkerCallStarted(marker, aw)
    \/ \E p \in Callers, branchID \in ConcurrentBranchIDs, aw \in ConcurrentWeights :
            UpdateBranchWeight(p, branchID, aw) /\ ConcurrentBranchCallStarted
    \/ \E p \in Callers : ConcurrentStep(p)

SpecConcurrent == InitConcurrent /\ [][NextConcurrent]_vars

\* the scheduler lets every caller that can take a step take one eventually
SpecConcurrentFair == SpecConcurrent /\ \A p \in Callers : WF_vars(ConcurrentStep(p))

(* ------------------------------------------------------------------ *)
(* The gadget with one caller: the calls come one at a time, every     *)
(* call runs through the same steps                                    *)
(* ------------------------------------------------------------------ *)
\* the caller of the calls that come one at a time
Caller == 1

\* the ledger, the counters and the input a call begins with
Entered(id, aw) ==
    entry' = [ledger |-> Ledger, emitted |-> emitted, id |-> id, aw |-> aw]

\* the approval weight manager reports the weight of a marker
MarkerWeightChanged(max, marker, aw) ==
    /\ StartHandleMarker(Caller, marker, aw)
    /\ CallStarted(max)
    /\ Entered(marker, aw)
    /\ UNCHANGED history

\* the approval weight manager reports the weight of a branch
BranchWeightChanged(max, branchID, aw) ==
    /\ UpdateBranchWeight(Caller, branchID, aw)
    /\ CallStarted(max)
    /\ Entered(branchID, aw)
    /\ UNCHANGED history

\* a step of the call the caller is in
SequentialStep == CallerStep(Caller) /\ UNCHANGED <<history, entry>>

Next ==
    \/ \E marker \in Markers, aw \in Weights :
            MarkerWeightChanged(MaxSequentialCalls, marker, aw)
    \/ \E branchID \in BranchIDs, aw \in Weights :
            BranchWeightChanged(MaxSequentialCalls, branchID, aw)
    \/ SequentialStep

Spec == Init /\ [][Next]_vars

\* the whole call as one function: when a call made by the single caller returns, the
\* metadata is what HandleMarker or HandleBranch makes of the ledger the call began
\* with, and the events triggered since are the events of that call
CallAgreesWithSteps ==
    [][(procs'[Caller].pc = "idle" /\ (procs[Caller].pc # "idle" \/ calls' # calls)) =>
        LET s1 == IF entry'.id \in Markers
                  THEN HandleMarker(entry'.ledger, entry'.id, entry'.aw)
                  ELSE HandleBranch(entry'.ledger, entry'.id, entry'.aw)
        IN  /\ msgGoF' = s1.msg /\ txGoF' = s1.tx /\ outGoF' = s1.out
            /\ \A e \in AllEvents :
                 emitted'[e] = entry'.emitted[e] + Occurrences(s1.log, e)]_vars

(* ------------------------------------------------------------------ *)
(* The gadget with one caller of HandleMarker and HandleBranch and      *)
(* callers that ask the queries at any time, also while a call runs     *)
(* ------------------------------------------------------------------ *)
NextQueries ==
    \/ \E marker \in Markers, aw \in Weights :
            MarkerWeightChanged(MaxQueriedCalls, marker, aw)
    \/ \E branchID \in BranchIDs, aw \in Weights :
            BranchWeightChanged(MaxQueriedCalls, branchID, aw)
    \/ SequentialStep
    \/ \E marker \in Markers : AskIsMarkerConfirmed(marker)
    \/ \E msgID \in MessageIDs : AskIsMessageConfirmed(msgID)
    \/ \E branchID \in BranchIDs : AskIsBranchConfirmed(branchID)
    \/ \E transactionID \in TransactionIDs : AskIsTransactionConfirmed(transactionID)
    \/ \E outputID \in OutputIDs : AskIsOutputConfirmed(outputID)
    \/ \E transactionID \in TransactionIDs : AskIsTransactionRejected(transactionID)
    \/ \E branchID \in BranchIDs : AskIsBranchRejected(branchID)

SpecQueries == Init /\ [][NextQueries]_vars

(* ------------------------------------------------------------------ *)
(* Properties                                                           *)
(* ------------------------------------------------------------------ *)
GoFOf(rec) == IF rec \in MessageIDs THEN msgGoF[rec] ELSE txGoF[rec]

AllReturned == \A p \in Callers : procs[p].pc = "idle"

\* the ledger a call leaves behind, seen by the next call
After(s) == [s EXCEPT !.log = <<>>]

SameMetadata(s1, s2) == s1.msg = s2.msg /\ s1.tx = s2.tx /\ s1.out = s2.out

AllNone ==
    /\ msgGoF = [m \in MessageIDs |-> None]
    /\ txGoF = [t \in TransactionIDs |-> None]
    /\ outGoF = [o \in OutputIDs |-> None]

\* the messages reachable from the messages of S over parent edges of either type
RECURSIVE ParentClosure(_)
ParentClosure(S) ==
    LET T == S \cup UNION {Range(StrongParents(m)) \cup Range(WeakParents(m)) : m \in S}
    IN  IF T = S THEN S ELSE ParentClosure(T)

PastCone(m) == ParentClosure({m})

\* the strong past cone of S when the walk does not go on from Y
RECURSIVE StrongClosureWithout(_, _)
StrongClosureWithout(S, Y) ==
    LET T == S \cup UNION {Range(StrongParents(m)) : m \in S \ {Y}}
    IN  IF T = S THEN S ELSE StrongClosureWithout(T, Y)

\* the strong ancestors of X that every path of strong parent edges reaches through Y
OnlyThrough(X, Y) == StrongPastCone(X) \ StrongClosureWithout({X}, Y)

\* the transactions that spend an output of t
ConsumersOf(t) == UNION {Range(Consumers(o)) : o \in Range(Outputs(t))}

\* the transaction that created output o
Creator(o) == CHOOSE t \in TransactionIDs : o \in Range(Outputs(t))

\* the non-conflicting transactions the messages of S carry
PlainPayloads(S) ==
    {Payload(m) : m \in S} \cap {t \in TransactionIDs : ~TransactionConflicting(t)}

\* C1: over any sequence of HandleMarker and HandleBranch calls, one at a time and
\* with arbitrary weights, no message, transaction or output has its grade of
\* finality lowered by a call.
C1_Monotonicity ==
    [][/\ \A m \in MessageIDs : msgGoF'[m] >= msgGoF[m]
       /\ \A t \in TransactionIDs : txGoF'[t] >= txGoF[t]
       /\ \A o \in OutputIDs : outGoF'[o] >= outGoF[o]]_vars

\* calls with weights below earlier ones have run: m4 was raised to High, m6 later
\* only to a lower level, and the conflicting TD sits above the level its branch
\* weight translates to now
C1_Witness ==
    /\ AllReturned
    /\ msgGoF["m4"] = High
    /\ msgGoF["m6"] \in {Low, Medium}
    /\ txGoF["TD"] > DefaultBranchGoFTranslation("TD", branchWeight["TD"])
    /\ outGoF["oD"] = txGoF["TD"]

\* C2: under any interleaving of concurrent HandleMarker walks no step lowers a
\* message's grade of finality, and when all calls have returned every message
\* carries the highest candidate any walk tried to raise it to, which is the highest
\* level translated from the weight of a call whose marker's message has the message
\* in its strong past cone.
C2_ConcurrentMarkers ==
    [][/\ \A m \in MessageIDs : msgGoF'[m] >= msgGoF[m]
       /\ AllReturned' => \A m \in MessageIDs : /\ msgGoF'[m] = history'.tried[m]
                                                /\ msgGoF'[m] = history'.due[m]]_vars

\* two walks that are both in progress have met on one message with different
\* candidates: the lower one came second and was turned down
C2_Witness ==
    \E p, q \in Callers, m \in MessageIDs :
        /\ procs[p].op = "HandleMarker" /\ procs[q].op = "HandleMarker"
        /\ procs[p].obs = <<m, High, TRUE>>
        /\ procs[q].obs = <<m, Medium, FALSE>>
        /\ msgGoF[m] = High /\ history.tried[m] = High /\ history.due[m] = High

C4_ConcurrentTransactionConfirmedOnce ==
    \A t \in TransactionIDs : emitted[TransactionConfirmed(t)] <= 1

\* C5: between calls made one at a time, HandleMarker(marker, w) called again right
\* after HandleMarker(marker, w) leaves all metadata as the first call left it and
\* triggers no event.
C5_HandleMarkerIdempotent ==
    AllReturned =>
        \A marker \in Markers, aw \in Weights :
            LET s1 == HandleMarker(Ledger, marker, aw)
                s2 == HandleMarker(After(s1), marker, aw)
            IN  SameMetadata(s2, s1) /\ s2.log = <<>>

\* a state in which a first call HandleMarker(k6, w) raises messages, a
\* transaction and an output and triggers events
C5_Witness ==
    /\ AllReturned
    /\ \E aw \in Weights :
           LET s1 == HandleMarker(Ledger, "k6", aw)
           IN  /\ msgGoF["m4"] > None
               /\ s1.msg # msgGoF /\ s1.tx # txGoF /\ s1.out # outGoF
               /\ Len(s1.log) >= 2

\* C6: in every state, also one a walk has left with strong ancestors of the
\* marker's message below it, a HandleMarker call whose level translated from the
\* weight is not greater than the grade of finality of the marker's message writes
\* no message, transaction or output metadata and triggers no event.
C6_NoChangeNoEvent ==
    \A marker \in Markers, aw \in Weights :
        (/\ MessageID(marker) \in MessageIDs
         /\ DefaultMessageGoFTranslation(aw) <= msgGoF[MessageID(marker)])
        => HandleMarker(Ledger, marker, aw) = Ledger

\* a walk from m6 with High is under way: m6 is raised, its strong ancestors m4, m5
\* and m1, the payload TD and its output are still below High, and High is the
\* confirmed level; a call on k6 with the same candidate changes nothing
C6_Witness ==
    /\ ~AllReturned
    /\ msgGoF["m6"] = High
    /\ {"m4", "m5", "m1"} \subseteq StrongPastCone("m6")
    /\ msgGoF["m4"] < High /\ msgGoF["m5"] < High /\ msgGoF["m1"] < High
    /\ txGoF["TD"] < High /\ outGoF["oD"] < High
    /\ opts.MessageGoFReachedLevel = High
    /\ emitted[MessageConfirmed("m6")] = 0
    /\ DefaultMessageGoFTranslation(50) = msgGoF["m6"]
    /\ HandleMarker(Ledger, "k6", 50) = Ledger

\* C7: MessageConfirmed(M) is triggered at most once for every message, for every
\* configured messageConfirmedLevel, over any sequence of HandleMarker calls.
C7_MessageConfirmedOnce ==
    \A m \in MessageIDs : emitted[MessageConfirmed(m)] <= 1

\* C8: TransactionConfirmed(T) is triggered at most once for every transaction over
\* any sequence of HandleMarker and HandleBranch calls, one at a time.
C8_TransactionConfirmedOnce ==
    \A t \in TransactionIDs : emitted[TransactionConfirmed(t)] <= 1

\* C9: BranchConfirmed(B) is triggered at most once for every branch over any
\* sequence of HandleBranch calls.
C9_BranchConfirmedOnce ==
    \A b \in BranchIDs : emitted[BranchConfirmed(b)] <= 1

\* C10: a call HandleBranch(B, w), made when no call is in progress, triggers
\* BranchConfirmed(B) exactly once, as its
\* last event, when the level translated from w reaches branchConfirmedLevel, and
\* triggers no BranchConfirmed event otherwise, whether or not it raised a
\* transaction.
C10_BranchConfirmedPerCall ==
    AllReturned =>
        \A b \in BranchIDs, aw \in Weights :
            LET log == HandleBranch(Ledger, b, aw).log
                reached == DefaultBranchGoFTranslation(b, aw) >= opts.BranchGoFReachedLevel
            IN  /\ \A c \in BranchIDs \ {b} : Occurrences(log, BranchConfirmed(c)) = 0
                /\ Occurrences(log, BranchConfirmed(b)) = IF reached THEN 1 ELSE 0
                /\ reached => log[Len(log)] = BranchConfirmed(b)

\* in this state one call HandleBranch(TB, w) raises TB and its outputs and triggers
\* TransactionConfirmed before BranchConfirmed, a call HandleBranch(TD, w) reaches
\* the level and raises nothing, and a third call stays below the level
C10_Witness ==
    /\ AllReturned
    /\ \E aw \in Weights :
         LET s1 == HandleBranch(Ledger, "TB", aw)
         IN  /\ s1.log = <<TransactionConfirmed("TB"), BranchConfirmed("TB")>>
             /\ s1.out # outGoF
    /\ \E aw \in Weights :
         LET s1 == HandleBranch(Ledger, "TD", aw)
         IN  s1.log = <<BranchConfirmed("TD")>> /\ s1.tx = txGoF
    /\ \E aw \in Weights : HandleBranch(Ledger, "TB", aw).log = <<>>

\* C11: from a ledger in which every grade of finality is None and on which no call
\* is in progress, HandleMarker on the
\* marker of X with a weight translating to g # None leaves X and every message of
\* its strong past cone at g, every non-conflicting payload transaction of those
\* messages and every output of such a transaction at g, and triggers
\* TransactionConfirmed exactly once per such transaction when g reaches the
\* branch confirmed level and not at all otherwise.
C11_CascadeFromNone ==
    (AllReturned /\ AllNone) =>
        \A marker \in Markers, aw \in Weights :
            LET g == DefaultMessageGoFTranslation(aw)
                X == MessageID(marker)
                s1 == HandleMarker(Ledger, marker, aw)
            IN  (g # None /\ X \in MessageIDs) =>
                    /\ \A m \in StrongPastCone(X) : s1.msg[m] = g
                    /\ \A t \in PlainPayloads(StrongPastCone(X)) :
                         /\ s1.tx[t] = g
                         /\ \A o \in Range(Outputs(t)) : s1.out[o] = g
                         /\ Occurrences(s1.log, TransactionConfirmed(t)) =
                                IF g >= opts.BranchGoFReachedLevel THEN 1 ELSE 0

\* every grade of finality is None although the branches have had weight; a call
\* on k6 reaches the six messages of the strong past cone of m6, raises TA (attached
\* twice) and TC with their outputs and triggers one event for each; a call below
\* the level triggers none
C11_Witness ==
    /\ AllReturned
    /\ AllNone
    /\ branchWeight["TB"] > 0
    /\ opts.BranchGoFReachedLevel = Medium
    /\ LET s1 == HandleMarker(Ledger, "k6", 50)
       IN  /\ StrongPastCone("m6") = MessageIDs \ {"m7"}
           /\ \A m \in StrongPastCone("m6") : s1.msg[m] = High
           /\ s1.tx["TA"] = High /\ s1.tx["TC"] = High
           /\ s1.out["oA"] = High /\ s1.out["oC"] = High
           /\ Occurrences(s1.log, TransactionConfirmed("TA")) = 1
           /\ Occurrences(s1.log, TransactionConfirmed("TC")) = 1
    /\ LET s2 == HandleMarker(Ledger, "k4", 20)
       IN  s2.tx["TA"] = Low /\ Occurrences(s2.log, TransactionConfirmed("TA")) = 0

\* C12: a HandleMarker call made when no call is in progress leaves every message
\* that is in the past cone of the marker's
\* message only through a weak parent edge at its grade of finality and triggers no
\* MessageConfirmed for it; its payload, when no message of the strong past cone
\* attaches it, stays unchanged with its outputs and gets no TransactionConfirmed.
C12_StrongParentsOnly ==
    AllReturned =>
        \A marker \in Markers, aw \in Weights :
            LET X == MessageID(marker)
                s1 == HandleMarker(Ledger, marker, aw)
            IN  X \in MessageIDs =>
                    \A m \in PastCone(X) \ StrongPastCone(X) :
                        /\ s1.msg[m] = msgGoF[m]
                        /\ Occurrences(s1.log, MessageConfirmed(m)) = 0
                        /\ (/\ Payload(m) # NoTransaction
                            /\ Attachments(Payload(m)) \cap StrongPastCone(X) = {})
                           => /\ s1.tx[Payload(m)] = txGoF[Payload(m)]
                              /\ \A o \in Range(Outputs(Payload(m))) : s1.out[o] = outGoF[o]
                              /\ Occurrences(s1.log, TransactionConfirmed(Payload(m))) = 0

\* m5 is a weak parent of m4 and no strong ancestor of it; a call on k4 raises m4
\* and its strong parents above the level m5 and its payload TC have, triggers
\* events, and leaves m5 and TC where they were
C12_Witness ==
    /\ AllReturned
    /\ "m5" \in PastCone("m4") \ StrongPastCone("m4")
    /\ msgGoF["m1"] = Low /\ msgGoF["m5"] = None /\ txGoF["TC"] = None
    /\ opts.MessageGoFReachedLevel = Medium
    /\ LET s1 == HandleMarker(Ledger, "k4", 50)
       IN  /\ s1.msg["m4"] = High /\ s1.msg["m2"] = High /\ s1.msg["m1"] = High
           /\ Occurrences(s1.log, MessageConfirmed("m4")) = 1
           /\ s1.msg["m5"] = None /\ s1.tx["TC"] = None

\* C13: when the walk of a HandleMarker call with candidate g, made when no call is
\* in progress, comes to a past marker Y
\* whose grade of finality is g or more, Y keeps its level and no MessageConfirmed
\* is triggered for it, a strong parent of Y is enqueued only if another message,
\* one that the call raised, has it as strong parent, and the ancestors that are
\* reachable through Y alone are neither enqueued nor modified.
C13_MarkerPruning ==
    AllReturned =>
        \A marker \in Markers, aw \in Weights :
            LET g == DefaultMessageGoFTranslation(aw)
                X == MessageID(marker)
                s1 == HandleMarker(Ledger, marker, aw)
                walked == HandleMarkerWalked(Ledger, marker, aw)
            IN  \A Y \in walked \cap MessageIDs :
                    (IsPastMarker(Y) /\ msgGoF[Y] >= g) =>
                        /\ s1.msg[Y] = msgGoF[Y]
                        /\ Occurrences(s1.log, MessageConfirmed(Y)) = 0
                        /\ \A p \in Range(StrongParents(Y)) \cap walked :
                             \E c \in walked \ {Y} :
                                /\ p \in Range(StrongParents(c))
                                /\ s1.msg[c] > msgGoF[c]
                        /\ \A a \in OnlyThrough(X, Y) :
                             a \notin walked /\ s1.msg[a] = msgGoF[a]

\* m4 is a past marker at High and m6 is below; a call on k6 with High raises m6
\* and m5, comes to m4 and stops there: m2 and m3, which only m4 leads to, are not
\* enqueued, while m1 is, through m5
C13_Witness ==
    /\ AllReturned
    /\ msgGoF["m4"] = High /\ msgGoF["m6"] = Low /\ msgGoF["m5"] = Low
    /\ OnlyThrough("m6", "m4") = {"m2", "m3"}
    /\ HandleMarkerWalked(Ledger, "k6", 50) = {"m6", "m4", "m5", "m1"}
    /\ LET s1 == HandleMarker(Ledger, "k6", 50)
       IN  s1.msg["m6"] = High /\ s1.msg["m5"] = High /\ s1.msg["m4"] = msgGoF["m4"]

\* a call of HandleMarker, made when no call is in progress, evaluates the payload
\* of every message it raises, when the payload is one of the transactions T, on the
\* level the current weight of the transaction's branch translates to, not on the
\* level of the message: if that level is above the transaction's, the transaction
\* and its outputs are set to it and TransactionConfirmed is decided on it;
\* otherwise the transaction and its outputs stay as they are and no
\* TransactionConfirmed is triggered
PayloadOnBranchWeight(T) ==
    AllReturned =>
        \A marker \in Markers, aw \in Weights :
            LET s1 == HandleMarker(Ledger, marker, aw)
            IN  \A m \in MessageIDs :
                    (s1.msg[m] > msgGoF[m] /\ Payload(m) \in T)
                    => LET t == Payload(m)
                           level == DefaultBranchGoFTranslation(BranchID(t),
                                                                branchWeight[BranchID(t)])
                       IN  IF level > txGoF[t]
                           THEN /\ s1.tx[t] = level
                                /\ \A o \in Range(Outputs(t)) : s1.out[o] = level
                                /\ Occurrences(s1.log, TransactionConfirmed(t)) =
                                       IF level >= opts.BranchGoFReachedLevel THEN 1 ELSE 0
                           ELSE /\ s1.tx[t] = txGoF[t]
                                /\ \A o \in Range(Outputs(t)) : s1.out[o] = outGoF[o]
                                /\ Occurrences(s1.log, TransactionConfirmed(t)) = 0

\* the payload cascade evaluates the transactions that define a conflict branch on
\* the weight of the branch
DefiningPayloadOnBranchWeight ==
    PayloadOnBranchWeight({t \in TransactionIDs : TransactionConflicting(t)})

\* C14: when a message's grade of finality is raised and its payload transaction
\* belongs to a conflict (non-master) branch, whether it defines the branch or was
\* booked into it, the level the transaction is raised to is the one the current
\* weight of that branch translates to, not the level of the message, and the
\* transaction stays unchanged if that level is not greater than its own.
C14_ConflictingPayload ==
    PayloadOnBranchWeight({t \in TransactionIDs : BranchID(t) # MasterBranchID})

\* C15: in every state between HandleMarker and HandleBranch calls made one at a
\* time, a
\* transaction whose recorded branch is a conflict branch B has a grade of finality
\* no greater than the level the highest weight B has had translates to, whether
\* the transaction is the conflicting one of B or was only booked into B.
C15_BranchCap ==
    AllReturned =>
        \A t \in TransactionIDs :
            BranchID(t) # MasterBranchID =>
                txGoF[t] <= DefaultBranchGoFTranslation(BranchID(t), highestWeight[BranchID(t)])

\* C16: HandleBranch(B, w), called when no call is in progress, returns no error
\* and leaves every transaction T2 whose
\* recorded branch is not B unchanged together with its outputs, without a
\* TransactionConfirmed(T2), also when T2 was enqueued as consumer of a raised
\* transaction of B; a consumer of T2 is in the walker only as the transaction the
\* walk starts from or as consumer of a transaction of B that the call raised.
C16_BranchBoundary ==
    AllReturned =>
        \A B \in BranchIDs, aw \in Weights :
            LET s1 == HandleBranch(Ledger, B, aw)
                walked == HandleBranchWalked(Ledger, B, aw)
            IN  /\ HandleBranchErr(Ledger, B, aw) = NoError
                /\ \A T2 \in TransactionIDs :
                     BranchID(T2) # B =>
                        /\ s1.tx[T2] = txGoF[T2]
                        /\ \A o \in Range(Outputs(T2)) : s1.out[o] = outGoF[o]
                        /\ Occurrences(s1.log, TransactionConfirmed(T2)) = 0
                        /\ \A c \in ConsumersOf(T2) \cap walked :
                             \/ c = TransactionIDOfBranch(B)
                             \/ \E t1 \in TransactionIDs :
                                   /\ BranchID(t1) = B
                                   /\ s1.tx[t1] > txGoF[t1]
                                   /\ c \in ConsumersOf(t1)

\* m4 and m6 are at High, TB and TD below; HandleBranch(TB, 0.5) raises TB and its
\* outputs, enqueues the consumers TC and TD, and leaves TD, a transaction of
\* branch TD whose attachment would support High, and its output as they were; TE,
\* which consumes the output of TD, is not enqueued
C16_Witness ==
    /\ AllReturned
    /\ msgGoF["m4"] = High /\ msgGoF["m6"] = High
    /\ txGoF["TB"] < High /\ txGoF["TD"] < High
    /\ BranchID("TD") # "TB"
    /\ ConsumersOf("TD") = {"TE"}
    /\ HandleBranchWalked(Ledger, "TB", 50) = {"TB", "TC", "TD"}
    /\ LET s1 == HandleBranch(Ledger, "TB", 50)
       IN  /\ s1.tx["TB"] = High /\ s1.out["oB2"] = High
           /\ s1.tx["TD"] = txGoF["TD"] /\ s1.out["oD"] = outGoF["oD"]
           /\ Occurrences(s1.log, TransactionConfirmed("TD")) = 0

\* C17: a call HandleBranch(B, w) with candidate g, made when no other call is in
\* progress, leaves a transaction whose attaching messages are all below g
\* unchanged, at its own level and not at the highest level of its attachments,
\* together with its outputs, triggers no TransactionConfirmed for it, and leaves
\* unchanged every transaction that consumes one of its outputs.
C17_AttachmentCap ==
    AllReturned =>
        \A B \in BranchIDs, aw \in Weights :
            LET g == DefaultBranchGoFTranslation(B, aw)
                s1 == HandleBranch(Ledger, B, aw)
                capped == {t \in TransactionIDs : MaxAttachmentGoF(msgGoF, t) < g}
            IN  \A t \in capped :
                    /\ s1.tx[t] = txGoF[t]
                    /\ \A o \in Range(Outputs(t)) : s1.out[o] = outGoF[o]
                    /\ Occurrences(s1.log, TransactionConfirmed(t)) = 0
                    /\ \A c \in ConsumersOf(t) :
                         /\ s1.tx[c] = txGoF[c]
                         /\ \A o \in Range(Outputs(c)) : s1.out[o] = outGoF[o]

\* TB is at Low and its only attachment m4 at Medium; HandleBranch(TB, 0.5) leaves
\* TB at Low, does not raise it to Medium, changes no other metadata and triggers
\* BranchConfirmed only, while HandleBranch(TB, 0.3) raises TB
C17_Witness ==
    /\ AllReturned
    /\ txGoF["TB"] = Low /\ MaxAttachmentGoF(msgGoF, "TB") = Medium
    /\ opts.BranchGoFReachedLevel = Medium
    /\ LET s1 == HandleBranch(Ledger, "TB", 50)
       IN  /\ s1.tx = txGoF /\ s1.out = outGoF
           /\ s1.log = <<BranchConfirmed("TB")>>
    /\ HandleBranch(Ledger, "TB", 30).tx["TB"] = Medium

\* C18: in every state between HandleMarker and HandleBranch calls made one at a
\* time, the grade of
\* finality of every transaction, conflicting or not, is no greater than the
\* highest grade of finality among the messages that attach it.
C18_AttachmentBound ==
    AllReturned =>
        \A t \in TransactionIDs : txGoF[t] <= MaxAttachmentGoF(msgGoF, t)

\* C19: every write of an output's grade of finality is made by a call that has
\* raised the creating transaction before, to the level it writes, and the level
\* written is no greater than the grade of finality the creating transaction has
\* at that moment; when the calls are made one at a time, between the calls every
\* output of a transaction that has been raised equals the grade of finality of
\* its transaction.
C19_TransactionThenOutputs ==
    [][LET pr == procs[Caller]
           written == IF pr.pc \in {"setOutputGoF", "adjustOutputGoF"}
                      THEN {Head(pr.outs)} ELSE {}
           level == IF pr.pc = "setOutputGoF" THEN pr.gp ELSE pr.g
       IN  /\ \A o \in OutputIDs \ written : outGoF'[o] = outGoF[o]
           /\ \A o \in written :
                /\ pr.obs = <<Creator(o), level, TRUE>>
                /\ outGoF'[o] = level
                /\ outGoF'[o] <= txGoF[Creator(o)]
           /\ AllReturned' =>
                \A t \in TransactionIDs :
                    txGoF'[t] > None =>
                        \A o \in Range(Outputs(t)) : outGoF'[o] = txGoF'[t]]_vars

\* transactions were raised by payload cascades and stopped lower candidates: TB
\* with its three outputs is at High above its attachment and above the level its
\* branch translates to now, TC and its output are at a lower level
C19_Witness ==
    /\ AllReturned
    /\ txGoF["TB"] = High
    /\ \A o \in Range(Outputs("TB")) : outGoF[o] = High
    /\ msgGoF["m4"] = Medium
    /\ DefaultBranchGoFTranslation("TB", branchWeight["TB"]) = Low
    /\ txGoF["TC"] = Low /\ outGoF["oC"] = Low

\* under concurrent callers: a caller about to write an output has raised the
\* creating transaction to the level it writes, and the transaction is still at
\* that level or above
OutputWriteFollowsRaise ==
    \A p \in Callers :
        LET pr == procs[p] IN
        /\ pr.pc = "setOutputGoF" =>
              /\ pr.obs = <<Payload(pr.cur), pr.gp, TRUE>>
              /\ Creator(Head(pr.outs)) = Payload(pr.cur)
              /\ pr.gp <= txGoF[Payload(pr.cur)]
        /\ pr.pc = "adjustOutputGoF" =>
              /\ pr.obs = <<pr.cur, pr.g, TRUE>>
              /\ Creator(Head(pr.outs)) = pr.cur
              /\ pr.g <= txGoF[pr.cur]

\* C20: for every configuration of the two confirmed levels, also when they
\* differ, IsTransactionConfirmed(T) is true exactly when the grade of finality of
\* T is at or above the branch confirmed level.
C20_IsTransactionConfirmed ==
    \A t \in TransactionIDs :
        IsTransactionConfirmed(t) <=> txGoF[t] >= opts.BranchGoFReachedLevel

\* C21: IsMessageConfirmed and IsMarkerConfirmed are true exactly when the
\* message, for a marker the message it resolves to, has a grade of finality at or
\* above the message confirmed level; IsMarkerConfirmed is false for a marker that
\* resolves to no message; IsOutputConfirmed and IsBranchConfirmed are true
\* exactly when the output, or the transaction the branch is derived from, has a
\* grade of finality at or above the branch confirmed level.
C21_ConfirmedQueries ==
    /\ \A m \in MessageIDs :
         IsMessageConfirmed(m) <=> msgGoF[m] >= opts.MessageGoFReachedLevel
    /\ \A marker \in Markers :
         IF MessageID(marker) \in MessageIDs
         THEN IsMarkerConfirmed(marker)
                <=> msgGoF[MessageID(marker)] >= opts.MessageGoFReachedLevel
         ELSE ~IsMarkerConfirmed(marker)
    /\ \A o \in OutputIDs :
         IsOutputConfirmed(o) <=> outGoF[o] >= opts.BranchGoFReachedLevel
    /\ \A b \in BranchIDs :
         IsBranchConfirmed(b) <=> txGoF[TransactionIDOfBranch(b)] >= opts.BranchGoFReachedLevel

\* the two confirmed levels differ and the queries answer differently on equal
\* grades of finality: m4 at Medium is confirmed, as is its marker, while branch TB
\* and its output oB1 at Medium are not, and branch TD and its output at High are;
\* the marker k0 resolves to no message
C21_Witness ==
    /\ opts.MessageGoFReachedLevel = Medium /\ opts.BranchGoFReachedLevel = High
    /\ msgGoF["m4"] = Medium /\ txGoF["TB"] = Medium /\ outGoF["oB1"] = Medium
    /\ IsMessageConfirmed("m4") /\ IsMarkerConfirmed("k4")
    /\ ~IsMessageConfirmed("m5")
    /\ ~IsBranchConfirmed("TB") /\ ~IsOutputConfirmed("oB1")
    /\ msgGoF["m1"] = High /\ ~IsMarkerConfirmed("k0")
    /\ txGoF["TD"] = High /\ IsBranchConfirmed("TD") /\ IsOutputConfirmed("oD")

\* C22: a step in which one of the queries IsMarkerConfirmed, IsMessageConfirmed,
\* IsBranchConfirmed, IsTransactionConfirmed, IsOutputConfirmed,
\* IsTransactionRejected or IsBranchRejected answers leaves the grade of finality
\* of every message, transaction and output and the weight of every branch as they
\* were and triggers no event.
C22_QueriesReadOnly ==
    [][probe' # probe =>
          UNCHANGED <<msgGoF, txGoF, outGoF, branchWeight, highestWeight, emitted>>]_vars

\* after steps of calls that raised messages and transactions a caller asked
\* IsMessageConfirmed for a message the query finds confirmed
C22_Witness ==
    /\ probe = [fn |-> "IsMessageConfirmed", arg |-> "m4", result |-> TRUE]
    /\ msgGoF["m4"] = High /\ txGoF["TB"] = Medium
    /\ \A e \in AllEvents : emitted[e] = 0

\* C23: IsTransactionRejected and IsBranchRejected are false for every
\* identifier, known or not, in every reachable state, and false is what a caller
\* that asked either of them was given.
C23_NeverRejected ==
    /\ \A t \in TransactionIDs \cup {NoTransaction} : ~IsTransactionRejected(t)
    /\ \A b \in BranchIDs \cup {MasterBranchID} : ~IsBranchRejected(b)
    /\ probe.fn \in {"IsTransactionRejected", "IsBranchRejected"} => ~probe.result

\* branch TB is confirmed and branch TD is not; a caller asked IsBranchRejected
\* for TD and got false
C23_Witness ==
    /\ IsBranchConfirmed("TB") /\ ~IsBranchConfirmed("TD")
    /\ branchWeight["TB"] = 50
    /\ probe = [fn |-> "IsBranchRejected", arg |-> "TD", result |-> FALSE]

\* C24: on the grid of approval weights 0.00, 0.01, .. 1.00, which contains 0.2, 0.3
\* and 0.5, the default translation gives None below 0.2, Low from 0.2 up to but
\* not including 0.3, Medium from 0.3 up to but not including 0.5 and High from 0.5
\* on; the message translation and the branch translation, for every branch, give
\* the same grade for the same weight, and a larger weight never gives a smaller
\* grade.
C24_DefaultTranslation ==
    LET aw == probe.arg
        band == IF aw < 20 THEN None
                ELSE IF aw < 30 THEN Low
                ELSE IF aw < 50 THEN Medium
                ELSE High
    IN  /\ probe.fn # "input" => probe.result = band
        /\ \A b \in BranchIDs \cup {MasterBranchID} :
               DefaultBranchGoFTranslation(b, aw) = DefaultMessageGoFTranslation(aw)
        /\ \A lower \in WeightGrid :
               lower <= aw =>
                   /\ DefaultMessageGoFTranslation(lower) <= DefaultMessageGoFTranslation(aw)
                   /\ \A b \in BranchIDs :
                          DefaultBranchGoFTranslation(b, lower) <= DefaultBranchGoFTranslation(b, aw)

\* the message translation was applied to the weight 0.30, the first of the Medium band
C24_Witness ==
    probe = [fn |-> "DefaultMessageGoFTranslation", arg |-> 30, result |-> Medium]

\* a branch whose defining transaction the ledger holds no metadata of
UnknownBranchIDs == {"TX"}
\* an aggregated branch: no single conflicting transaction defines it
AggregatedBranchIDs == {"AG"}

\* C25: in every state between calls and for every weight, HandleMarker on a marker that
\* resolves to no message with metadata changes no metadata, triggers no event
\* and returns a nil error; HandleBranch on a branch whose defining transaction
\* has no metadata changes no metadata, triggers no TransactionConfirmed event and
\* returns a nil error.
C25_UnresolvableReferences ==
    AllReturned =>
        /\ \A marker \in Markers, aw \in Weights :
               MessageID(marker) \notin MessageIDs =>
                   /\ HandleMarker(Ledger, marker, aw) = Ledger
                   /\ HandleMarkerErr(Ledger, marker, aw) = NoError
        /\ \A branchID \in UnknownBranchIDs, aw \in Weights :
               LET s1 == HandleBranch(Ledger, branchID, aw)
               IN  /\ TransactionIDOfBranch(branchID) \notin TransactionIDs
                   /\ SameMetadata(s1, Ledger)
                   /\ \A i \in 1..Len(s1.log) : s1.log[i].type # "TransactionConfirmed"
                   /\ HandleBranchErr(Ledger, branchID, aw) = NoError

\* on a ledger where calls have raised messages and transactions, a call with the
\* highest weight on the unresolved marker k0 leaves the ledger as it is, and one
\* on the unknown branch TX triggers BranchConfirmed and nothing else
C25_Witness ==
    /\ AllReturned
    /\ MessageID("k0") = EmptyMessageID
    /\ msgGoF["m4"] = Medium /\ txGoF["TA"] = Medium /\ txGoF["TB"] = None
    /\ HandleMarker(Ledger, "k0", 50) = Ledger
    /\ HandleBranch(Ledger, "TX", 50).log = <<BranchConfirmed("TX")>>
    /\ SameMetadata(HandleBranch(Ledger, "TX", 50), Ledger)

\* C26: for every marker, in every state between calls, HandleMarker with a weight that the
\* message translation maps to None changes no metadata and triggers no event.
C26_NoneIsNoOp ==
    AllReturned =>
        \A marker \in Markers, aw \in WeightGrid :
            DefaultMessageGoFTranslation(aw) = None =>
                HandleMarker(Ledger, marker, aw) = Ledger

\* m4 and its strong parents are still at None: a call on k4 with the weight 0.19
\* changes nothing, while the same call with 0.20 raises m4
C26_Witness ==
    /\ AllReturned
    /\ msgGoF["m4"] = None /\ msgGoF["m2"] = None /\ msgGoF["m1"] = Low
    /\ DefaultMessageGoFTranslation(19) = None
    /\ HandleMarker(Ledger, "k4", 19) = Ledger
    /\ HandleMarker(Ledger, "k4", 20).msg["m4"] = Low

\* C27: HandleBranch called between calls for an aggregated branch returns the
\* unsupported-branch-type error to its caller.
C27_UnsupportedBranchType ==
    AllReturned =>
        \A branchID \in AggregatedBranchIDs, aw \in Weights :
            HandleBranchErr(Ledger, branchID, aw) = ErrUnsupportedBranchType

\* the calls a pair is drawn from, and what one of them makes of a ledger
MarkerCalls == {[op |-> "HandleMarker", id |-> marker, aw |-> aw] :
                    marker \in Markers, aw \in Weights}
BranchCalls == {[op |-> "HandleBranch", id |-> branchID, aw |-> aw] :
                    branchID \in BranchIDs, aw \in Weights}
Call(s, c) ==
    IF c.op = "HandleMarker" THEN HandleMarker(s, c.id, c.aw)
    ELSE HandleBranch(s, c.id, c.aw)

\* C28: from every state between calls, with the branch weights that the payload
\* cascade reads
\* the same in both runs, any two calls drawn from HandleMarker and HandleBranch
\* leave the same grades of finality of messages, transactions and outputs in
\* either order.
C28_OrderIndependence ==
    AllReturned =>
        \A c1, c2 \in MarkerCalls \cup BranchCalls :
            SameMetadata(Call(Call(Ledger, c1), c2), Call(Call(Ledger, c2), c1))

\* C29: under fair scheduling every HandleMarker call and every HandleBranch call
\* that has started returns, also while the other caller runs calls of its own.
C29_Termination ==
    \A p \in Callers : (procs[p].pc # "idle") ~> (procs[p].pc = "idle")

\* a HandleMarker call of one caller is about to raise a message while a
\* HandleBranch call of the other is about to raise a transaction
C29_Witness ==
    /\ procs[1].op = "HandleMarker" /\ procs[1].pc = "setMessageGoF"
    /\ procs[2].op = "HandleBranch" /\ procs[2].pc = "setTransactionGoF"

\* the messages of S and their strong ancestors that are reached from S through
\* messages below the grade g only and are below g themselves
RECURSIVE ReachableBelow(_, _, _)
ReachableBelow(gofs, S, g) ==
    LET T == S \cup {parent \in UNION {Range(StrongParents(m)) : m \in S} : gofs[parent] < g}
    IN  IF T = S THEN S ELSE ReachableBelow(gofs, T, g)

\* C30: in one HandleMarker walk, made when no other call is in progress, every
\* message that is reached from the message
\* of the marker over strong parents through messages the walk raises, and that is
\* below the new grade, is raised exactly once and ends at the new grade, also
\* when several paths lead to it; it triggers MessageConfirmed once when the grade
\* reaches the confirmed level and never otherwise; no other message is raised
\* or triggers MessageConfirmed.
C30_RaisedExactlyOnce ==
    AllReturned =>
        \A marker \in Markers, aw \in Weights :
            LET g == DefaultMessageGoFTranslation(aw)
                X == MessageID(marker)
                s1 == HandleMarker(Ledger, marker, aw)
                raised == HandleMarkerRaised(Ledger, marker, aw)
                expected == IF X \in MessageIDs /\ msgGoF[X] < g
                            THEN ReachableBelow(msgGoF, {X}, g) ELSE {}
            IN  /\ \A m \in expected :
                       /\ Occurrences(raised, m) = 1
                       /\ s1.msg[m] = g
                       /\ Occurrences(s1.log, MessageConfirmed(m)) =
                              IF g >= opts.MessageGoFReachedLevel THEN 1 ELSE 0
                /\ \A m \in MessageIDs \ expected :
                       /\ Occurrences(raised, m) = 0
                       /\ s1.msg[m] = msgGoF[m]
                       /\ Occurrences(s1.log, MessageConfirmed(m)) = 0

\* m1 is at Low and the rest at None; in the walk from m6 with the weight 0.5 the
\* message m1 is reached through m2, m3 and m5 and raised once, as each of the six
C30_Witness ==
    /\ AllReturned
    /\ msgGoF["m1"] = Low /\ \A m \in MessageIDs \ {"m1"} : msgGoF[m] = None
    /\ opts.MessageGoFReachedLevel = High
    /\ {"m2", "m3", "m5"} = {m \in MessageIDs : "m1" \in Range(StrongParents(m))}
    /\ LET raised == HandleMarkerRaised(Ledger, "k6", 50)
       IN  /\ Len(raised) = 6
           /\ Occurrences(raised, "m1") = 1
           /\ Occurrences(HandleMarker(Ledger, "k6", 50).log, MessageConfirmed("m1")) = 1

\* C31: from every state between calls and for every marker and weight, a
\* HandleMarker without
\* the past marker check, which relies on compare-and-raise alone, ends with the
\* same grades of finality and the same events, in the same order, as the
\* HandleMarker that applies the check.
C31_PruningIsOptimisation ==
    AllReturned =>
        \A marker \in Markers, aw \in Weights :
            HandleMarkerUnpruned(Ledger, marker, aw) = HandleMarker(Ledger, marker, aw)

\* the past marker m4 is at High and m6 is not: the walk from m6 with the weight
\* 0.5 is handed m4, at which the check stops it, and raises m6
C31_Witness ==
    /\ AllReturned
    /\ msgGoF["m4"] = High /\ msgGoF["m6"] = None /\ msgGoF["m5"] = None
    /\ IsPastMarker("m4")
    /\ "m4" \in HandleMarkerWalked(Ledger, "k6", 50)
    /\ HandleMarker(Ledger, "k6", 50).msg["m6"] = High
    /\ HandleMarkerUnpruned(Ledger, "k6", 50).msg["m5"] = High

\* C32: while a HandleBranch call runs, its walker never holds a transaction
\* twice, and a transaction it is given was never given to it before in this
\* call: every transaction is enqueued, and so handed to the forward propagation
\* step, at most once, also a consumer of several outputs of one transaction and
\* a consumer of outputs of two transactions raised in the call.
C32_EnqueuedOnce ==
    [][\A p \in Callers :
          (procs[p].op = "HandleBranch" /\ procs'[p].op = "HandleBranch") =>
              LET w == procs[p].w
                  after == procs'[p].w
              IN  /\ \A i, j \in 1..Len(after.stack) :
                         after.stack[i] = after.stack[j] => i = j
                  /\ Len(after.stack) > Len(w.stack) =>
                         \A i \in (Len(w.stack) + 1)..Len(after.stack) :
                             after.stack[i] \notin w.pushed
                  /\ w.pushed \subseteq after.pushed]_vars

\* a HandleBranch call on TB has raised TB and then TC, which spends two outputs
\* of TB; TD, which spends an output of TB and the output of TC, waits in the
\* walker once
C32_Witness ==
    \E p \in Callers :
        /\ procs[p].op = "HandleBranch" /\ procs[p].branch = "TB"
        /\ procs[p].pc = "confirmTransaction" /\ procs[p].cur = "TC"
        /\ procs[p].w.stack = <<"TD">>
        /\ procs[p].w.pushed = {"TB", "TC", "TD"}
        /\ {"TB", "TC"} = {Creator(o) : o \in {o \in OutputIDs : "TD" \in Range(Consumers(o))}}

\* C33: in every state between calls, a HandleBranch call whose candidate grade is
\* not above
\* the grade of finality of the transaction that defines the branch, as for a
\* candidate of None or a weight below an earlier one, changes no transaction and
\* no output, hands no consumer to its walker and triggers no
\* TransactionConfirmed.
C33_NoRaiseNoEffect ==
    AllReturned =>
        \A branchID \in BranchIDs, aw \in Weights :
            LET candidate == DefaultBranchGoFTranslation(branchID, aw)
                defining == TransactionIDOfBranch(branchID)
                s1 == HandleBranch(Ledger, branchID, aw)
            IN  candidate <= txGoF[defining] =>
                    /\ s1.tx = txGoF /\ s1.out = outGoF /\ s1.msg = msgGoF
                    /\ HandleBranchWalked(Ledger, branchID, aw) = {defining}
                    /\ \A i \in 1..Len(s1.log) : s1.log[i].type # "TransactionConfirmed"

\* TB is at High with its attachment m4; a call on TB with the lower weight 0.3
\* and one with the weight 0 change nothing and reach no consumer, while BranchConfirmed
\* is still triggered for the weight 0.3
C33_Witness ==
    /\ AllReturned
    /\ txGoF["TB"] = High /\ msgGoF["m4"] = High /\ highestWeight["TB"] = 50
    /\ opts.BranchGoFReachedLevel = Medium
    /\ SameMetadata(HandleBranch(Ledger, "TB", 30), Ledger)
    /\ HandleBranch(Ledger, "TB", 30).log = <<BranchConfirmed("TB")>>
    /\ HandleBranch(Ledger, "TB", 0) = Ledger
    /\ HandleBranchWalked(Ledger, "TB", 30) = {"TB"}

\* the transactions of S and the consumers reached from them that are recorded in
\* branch b, have an attachment at or above g and are below g
RECURSIVE ForwardChain(_, _, _)
ForwardChain(S, b, g) ==
    LET T == S \cup {c \in UNION {ConsumersOf(t) : t \in S} :
                        /\ c \in TransactionIDs
                        /\ BranchID(c) = b
                        /\ MaxAttachmentGoF(msgGoF, c) >= g
                        /\ txGoF[c] < g}
    IN  IF T = S THEN S ELSE ForwardChain(T, b, g)

\* C34: when a HandleBranch call with the candidate g raises the transaction that
\* defines the branch, then after the call every transaction reached from it over
\* consumers through transactions that are all recorded in the branch, have an
\* attachment at or above g and were below g is at g with all its outputs, and
\* TransactionConfirmed was triggered for it once when g reaches the branch
\* confirmed level and not at all otherwise.
C34_ForwardPropagation ==
    \A branchID \in BranchIDs, aw \in Weights :
        LET g == DefaultBranchGoFTranslation(branchID, aw)
            defining == TransactionIDOfBranch(branchID)
            s1 == HandleBranch(Ledger, branchID, aw)
        IN  s1.tx[defining] # txGoF[defining] =>
                \A t \in ForwardChain({defining}, branchID, g) :
                    /\ s1.tx[t] = g
                    /\ \A o \in Range(Outputs(t)) : s1.out[o] = g
                    /\ Occurrences(s1.log, TransactionConfirmed(t)) =
                           IF g >= opts.BranchGoFReachedLevel THEN 1 ELSE 0

\* m4 and m5 are at High while their payloads TB and TC are still below: a call on
\* TB with the weight 0.5 raises TB, then its consumer TC, and triggers
\* TransactionConfirmed once for each; TD is of another branch and stays
C34_Witness ==
    /\ msgGoF["m4"] = High /\ msgGoF["m5"] = High
    /\ txGoF["TB"] < High /\ txGoF["TC"] < High /\ txGoF["TD"] = None
    /\ ForwardChain({"TB"}, "TB", High) = {"TB", "TC"}
    /\ LET s1 == HandleBranch(Ledger, "TB", 50)
       IN  /\ s1.tx["TB"] = High /\ s1.tx["TC"] = High /\ s1.tx["TD"] = None
           /\ s1.out["oB1"] = High /\ s1.out["oC"] = High
           /\ Occurrences(s1.log, TransactionConfirmed("TC")) = 1

\* C35: starting with every message at None, in every state in which no
\* HandleMarker call is in progress, between calls made one at a time as well as
\* after calls of two callers that ran interleaved, every strong parent of a
\* message has a grade of finality at least as high as the message.
C35_PastConeClosure ==
    (\A p \in Callers : procs[p].op # "HandleMarker") =>
        \A m \in MessageIDs :
            \A parent \in Range(StrongParents(m)) : msgGoF[parent] >= msgGoF[m]

\* all calls have returned; m4 was raised to High and its strong past with it,
\* while m5 and m6 are lower
C35_Witness ==
    /\ AllReturned /\ calls = MaxCalls
    /\ msgGoF["m4"] = High /\ msgGoF["m2"] = High /\ msgGoF["m3"] = High
    /\ msgGoF["m1"] = High
    /\ msgGoF["m6"] = Medium /\ msgGoF["m5"] = Medium

\* C36: starting with everything at None, after any sequence of HandleMarker and
\* HandleBranch calls made one at a time, every transaction that is not
\* conflicting has the highest grade of finality of the messages that attach it.
C36_PayloadConsistency ==
    AllReturned =>
        \A t \in TransactionIDs :
            ~TransactionConflicting(t) => txGoF[t] = MaxAttachmentGoF(msgGoF, t)

\* TA, attached by m2 and m3, and TC, attached by m5, are raised and a
\* HandleBranch call has raised TB, whose outputs TC spends
C36_Witness ==
    /\ AllReturned
    /\ txGoF["TA"] = High /\ msgGoF["m2"] = High /\ msgGoF["m3"] = High
    /\ txGoF["TC"] = Medium /\ msgGoF["m5"] = Medium
    /\ txGoF["TB"] = High /\ branchWeight["TB"] = 50
    /\ ~TransactionConflicting("TC") /\ BranchID("TC") = "TB"

\* C37: in the state in which a BranchConfirmed event of a branch has just been
\* triggered, the transaction that defines the branch is at or above the branch
\* confirmed level, and IsBranchConfirmed of the branch and
\* IsTransactionConfirmed of that transaction are true.
C37_BranchConfirmedIsConfirmed ==
    [][\A b \in BranchIDs :
          emitted'[BranchConfirmed(b)] > emitted[BranchConfirmed(b)] =>
              /\ txGoF'[TransactionIDOfBranch(b)] >= opts'.BranchGoFReachedLevel
              /\ IsBranchConfirmed(b)'
              /\ IsTransactionConfirmed(TransactionIDOfBranch(b))']_vars

\* C38: for every configuration of the two confirmed levels, in every state after
\* MessageConfirmed of a message was triggered IsMessageConfirmed of it is true,
\* and in every state after TransactionConfirmed of a transaction was triggered
\* IsTransactionConfirmed of it and IsOutputConfirmed of each of its outputs are
\* true.
C38_EventsAgreeWithQueries ==
    /\ \A m \in MessageIDs :
           emitted[MessageConfirmed(m)] > 0 => IsMessageConfirmed(m)
    /\ \A t \in TransactionIDs :
           emitted[TransactionConfirmed(t)] > 0 =>
               /\ IsTransactionConfirmed(t)
               /\ \A o \in Range(Outputs(t)) : IsOutputConfirmed(o)

\* C39: under every interleaving of concurrent propagations, also of two that
\* raise the same transaction to different grades and then each write its own
\* candidate to the outputs, no step lowers an output, and when all calls have
\* returned every output has the grade of finality of the transaction that
\* created it.
C39_OutputsFollowTransaction ==
    [][/\ \A o \in OutputIDs : outGoF'[o] >= outGoF[o]
       /\ AllReturned' => \A o \in OutputIDs : outGoF'[o] = txGoF'[Creator(o)]]_vars

\* the transactions whose outputs t spends
SpentCreators(t) == {c \in TransactionIDs : t \in ConsumersOf(c)}

\* every message that attaches t has, among its strong ancestors, a message that
\* attaches each transaction whose outputs t spends
AttachedAfterInputs(t) ==
    \A m \in Attachments(t) :
        \A c \in SpentCreators(t) :
            \E ancestor \in StrongPastCone(m) \ {m} : Payload(ancestor) = c

\* C40: in every state between calls made one at a time, a transaction at or
\* above the branch confirmed level, whose attachments have attachments of the
\* transactions it spends from among their strong ancestors, spends only outputs
\* of transactions that are at or above the branch confirmed level as well.
C40_UTXOConsistency ==
    AllReturned =>
        \A t \in TransactionIDs :
            (AttachedAfterInputs(t) /\ txGoF[t] >= opts.BranchGoFReachedLevel) =>
                \A c \in SpentCreators(t) : txGoF[c] >= opts.BranchGoFReachedLevel

====
